---- MODULE Spec2Model ----
(***************************************************************************)
(* Model of the dispatch-and-retry engine of radix-event-stream:           *)
(*   - TransactionStreamProcessor::run / process_transaction               *)
(*   - DefaultTransactionHandler::handle                                   *)
(*   - EventProcessor::process_events                                      *)
(*   - the production task of the transaction stream (sources/gateway.rs)  *)
(*   - the periodic-reporting task spawned by run()                        *)
(* The consumer loop is one process whose position is pc; the production   *)
(* task and the periodic-reporting task interleave with it arbitrarily.    *)
(***************************************************************************)
EXTENDS Integers, Sequences, FiniteSets, TLC

(***************************************************************************)
(* Bounds of the model.                                                    *)
(***************************************************************************)
MaxTx == 2            \* transactions the production task sends at most
MaxEvents == 2        \* events per transaction at most
MaxFaults == 2        \* retry errors returned and registry changes made by
                      \* the handlers during a run, in total, at most
MaxReports == 1       \* periodic reports counted at most
BufferCapacity == 2   \* capacity the channel is configured with, at most
MaxStops == 2         \* stop() calls counted at most
MaxPage == 2          \* transactions in one page of the gateway, at most
MaxFetchErrors == 1   \* failed fetches counted at most

(***************************************************************************)
(* Program constants.                                                      *)
(***************************************************************************)
TRANSACTION_RETRY_INTERVAL_MS == 10000
EVENT_RETRY_INTERVAL_MS == 10000
DEFAULT_STATE_VERSION == 1

(***************************************************************************)
(* Value domains.                                                          *)
(***************************************************************************)
Keys == {"k1", "k2"}              \* (emitter address, event name) pairs
Handlers == {"h1", "h2"}          \* registered event handler instances
NoHandler == "none"
Causes == {"boom", "oops", "busy"} \* underlying causes carried by errors
NoCause == ""

\* Event sequences of a transaction: every sequence over Keys up to MaxEvents.
EventSeqs == UNION {[1..n -> Keys] : n \in 0..MaxEvents}

\* models::Transaction: state_version (the log's order key) and the events.
Transaction(sv, evs) == [state_version |-> sv, events |-> evs]
NoTransaction == Transaction(0, <<>>)

\* Result values: Ok or an error variant with its cause.
Ok == [kind |-> "Ok", cause |-> NoCause]
Err(kind, cause) == [kind |-> kind, cause |-> cause]
NoResult == [kind |-> "None", cause |-> NoCause]

\* One entry of the recorded history: an observer call, a handler invocation
\* or return, a call or return of process_events / process_transaction, the
\* receipt of a transaction, or a suspension for a retry delay.
Entry(kind, sv, ev) ==
    [kind |-> kind, tx |-> sv, ev |-> ev, dispatchable |-> FALSE,
     is_retry |-> FALSE, cause |-> NoCause, delay |-> 0, result |-> "",
     handler |-> NoHandler]
NoEntry == Entry("none", 0, 0)

\* Logger calls (the observer contract).
ReceiveTransaction(t, dispatchable, is_retry) ==
    [Entry("receive_transaction", t.state_version, 0)
        EXCEPT !.dispatchable = dispatchable, !.is_retry = is_retry]
FinishTransaction(t, was_handled) ==
    [Entry("finish_transaction", t.state_version, 0)
        EXCEPT !.dispatchable = was_handled]
TransactionRetryError(t, cause, delay) ==
    [Entry("transaction_retry_error", t.state_version, 0)
        EXCEPT !.cause = cause, !.delay = delay]
ReceiveEvent(t, ev, dispatchable, is_retry) ==
    [Entry("receive_event", t.state_version, ev)
        EXCEPT !.dispatchable = dispatchable, !.is_retry = is_retry]
FinishEvent(t, ev, was_handled) ==
    [Entry("finish_event", t.state_version, ev)
        EXCEPT !.dispatchable = was_handled]
EventRetryError(t, ev, cause, delay) ==
    [Entry("event_retry_error", t.state_version, ev)
        EXCEPT !.cause = cause, !.delay = delay]
UnrecoverableError(t, cause) ==
    [Entry("unrecoverable_error", t.state_version, 0) EXCEPT !.cause = cause]

\* Steps of the consumer that are not observer calls.
Sleep(t, ev, delay) == [Entry("sleep", t.state_version, ev) EXCEPT !.delay = delay]
Invoke(kind, t, ev, h) == [Entry(kind, t.state_version, ev) EXCEPT !.handler = h]
Return(kind, t, ev, h, r) ==
    [Entry(kind, t.state_version, ev)
        EXCEPT !.handler = h, !.result = r.kind, !.cause = r.cause]

VARIABLES
    \* TransactionStreamProcessor
    handler_registry,   \* Keys -> Handlers \cup {NoHandler}
    state,              \* STATE: the event handler that wrote it last
    logger,             \* TRUE: Some(logger), FALSE: None (disable_logging)
    custom_handler,     \* TRUE: a user TransactionHandler, FALSE: the default
    periodic_logging_joinhandle,  \* TRUE: Some(handle)
    \* consumer loop (run / process_transaction / process_events)
    pc,
    receiver,           \* TRUE while run() owns the receiving end
    transaction,        \* the transaction being processed
    handler_exists,     \* process_transaction's local
    event_index,        \* position of process_events' iteration (1-based)
    event_handler,      \* the handler resolved by get_handler
    pe_result,          \* what process_events returned
    th_result,          \* what the Transaction Handler returned
    handled,            \* what process_transaction returned (Ok(bool))
    run_result,         \* what run() returned
    \* observer lock and the notification in flight
    lock,               \* "free" | "write" | "read"
    pending,            \* the observer call the consumer is making
    return_pc,          \* where the consumer continues after it
    \* periodic-reporting task
    periodic,           \* "none" | "sleeping" | "reporting" | "aborted"
    reports,            \* periodic_report calls made
    reports_after_return,  \* periodic_report calls made after run() returned
    \* production task and channel
    producer,           \* "idle" | "running" | "closed"
    channel,            \* state versions of the transactions in flight; the
                        \* events of a transaction are an input drawn when
                        \* the consumer receives it
    sent,               \* transactions sent so far
    \* GatewayTransactionStream
    buffer_capacity,    \* capacity of the channel start() creates
    handle,             \* TRUE: Some(JoinHandle) of the production task
    stops,              \* stop() calls made since the source was constructed
                        \* or last started
    \* GatewayFetcher (the production task of the gateway source, in detail)
    fetcher,            \* "fetch" | "convert" | "send" | "returned" | "panicked"
    response,           \* items of the page stream.next() returned last
    page,               \* state versions of the transactions still to send
    cursor,             \* state version the stream asks for next
    fetch_errors,       \* failed fetches so far
    \* history and bounded counters
    history,            \* sequence of Entry since the last transaction
                        \* was received
    received,           \* transactions received from the channel so far
    event_retries,      \* EventRetryError outcomes so far
    tx_retries,         \* TransactionRetryError outcomes so far
    registry_ops        \* registry changes handlers made so far

procVars == <<handler_registry, state, logger, custom_handler,
              periodic_logging_joinhandle>>
loopVars == <<pc, receiver, transaction, handler_exists, event_index,
              event_handler, pe_result, th_result, handled, run_result>>
lockVars == <<lock, pending, return_pc>>
periodicVars == <<periodic, reports, reports_after_return>>
producerVars == <<producer, channel, sent>>
sourceVars == <<buffer_capacity, handle, stops>>
fetcherVars == <<fetcher, response, page, cursor, fetch_errors>>
histVars == <<history, received, event_retries, tx_retries, registry_ops>>
vars == <<procVars, loopVars, lockVars, periodicVars, producerVars,
         sourceVars, fetcherVars, histVars>>

\* The handlers may still return a retry error or change the registry.
FaultsLeft == event_retries + tx_retries + registry_ops < MaxFaults

(***************************************************************************)
(* Handler registry (event_handler.rs): one handler per key at most.       *)
(***************************************************************************)
Registries == [Keys -> Handlers \cup {NoHandler}]

HandlerExists(registry, key) == registry[key] # NoHandler

GetHandler(registry, key) == registry[key]

Register(registry, key, handler) == [registry EXCEPT ![key] = handler]

Unregister(registry, key) == [registry EXCEPT ![key] = NoHandler]

\* The registries the processor may be constructed with, and what a handler
\* may do during one invocation to the registry it is handed: nothing,
\* unregister a key, or register the handler h2 under a key.
InitialRegistries ==
    {r \in [Keys -> {"h1", NoHandler}] : r["k2"] = "h1" => r["k1"] = "h1"}

RegistryEffects(registry) ==
    {registry}
    \cup {Unregister(registry, k) : k \in Keys}
    \cup {Register(registry, k, "h2") : k \in Keys}

\* impl From<EventHandlerError> for TransactionHandlerError (the `?` of a
\* transaction handler): an event error that is not a retry is unrecoverable.
FromEventHandlerError(e) ==
    IF e.kind = "Ok" THEN Ok ELSE Err("UnrecoverableError", e.cause)

(***************************************************************************)
(* Initial state: the processor as TransactionStreamProcessor::new and the *)
(* builder methods leave it, before run().                                 *)
(***************************************************************************)
\* Everything but the capacity the source was configured with.
Constructed ==
    /\ handler_registry \in InitialRegistries
    /\ state = NoHandler
    /\ logger \in BOOLEAN
    /\ custom_handler \in BOOLEAN
    /\ periodic_logging_joinhandle = FALSE
    /\ pc = "start"
    /\ receiver = FALSE
    /\ transaction = NoTransaction
    /\ handler_exists = FALSE
    /\ event_index = 0
    /\ event_handler = NoHandler
    /\ pe_result = NoResult
    /\ th_result = NoResult
    /\ handled = FALSE
    /\ run_result = NoResult
    /\ lock = "free"
    /\ pending = NoEntry
    /\ return_pc = "none"
    /\ periodic = "none"
    /\ reports = 0
    /\ reports_after_return = 0
    /\ producer = "idle"
    /\ channel = <<>>
    /\ sent = 0
    /\ handle = FALSE
    /\ stops = 0
    /\ fetcher = "fetch"
    /\ response = <<>>
    /\ page = <<>>
    /\ cursor = DEFAULT_STATE_VERSION
    /\ fetch_errors = 0
    /\ history = <<>>
    /\ received = 0
    /\ event_retries = 0
    /\ tx_retries = 0
    /\ registry_ops = 0

\* The source is configured with the capacity BufferCapacity.
Init == Constructed /\ buffer_capacity = BufferCapacity

(***************************************************************************)
(* Observer notifications: `logger.write().await.<call>(..).await` when    *)
(* the logger is Some, nothing when it is None.                            *)
(***************************************************************************)
Notify(entry, next) ==
    IF logger
    THEN /\ pc' = "notify"
         /\ pending' = entry
         /\ return_pc' = next
    ELSE /\ pc' = next
         /\ UNCHANGED <<pending, return_pc>>

\* logger.write().await: the write lock is granted when nobody holds it.
AcquireWrite ==
    /\ pc = "notify"
    /\ lock = "free"
    /\ lock' = "write"
    /\ pc' = "notifying"
    /\ UNCHANGED <<fetcherVars, sourceVars, procVars, receiver, transaction, handler_exists, event_index,
                   event_handler, pe_result, th_result, handled, run_result,
                   pending, return_pc, periodicVars, producerVars, histVars>>

\* A variant that keeps the write guard after the call.
ObserverCall_KeepLock ==
    /\ pc = "notifying"
    /\ history' = Append(history, pending)
    /\ lock' = lock
    /\ pending' = NoEntry
    /\ pc' = return_pc
    /\ return_pc' = "none"
    /\ UNCHANGED <<fetcherVars, sourceVars, procVars, receiver, transaction, handler_exists,
                   event_index, event_handler, pe_result, th_result, handled,
                   run_result, periodicVars, producerVars, event_retries,
                   tx_retries, registry_ops, received>>

\* The observer call itself; the guard is dropped at the end of the statement.
ObserverCall ==
    /\ pc = "notifying"
    /\ history' = Append(history, pending)
    /\ lock' = "free"
    /\ pending' = NoEntry
    /\ pc' = return_pc
    /\ return_pc' = "none"
    /\ UNCHANGED <<fetcherVars, sourceVars, procVars, receiver, transaction, handler_exists, event_index,
                   event_handler, pe_result, th_result, handled, run_result,
                   periodicVars, producerVars, event_retries, tx_retries,
                   registry_ops,
                   received>>

(***************************************************************************)
(* TransactionStreamProcessor::run                                         *)
(***************************************************************************)
\* A variant that spawns the periodic-reporting task before it looks at the
\* result of start().
RunStart_SpawnFirst ==
    /\ pc = "start"
    /\ periodic_logging_joinhandle' = logger
    /\ periodic' = IF logger THEN "sleeping" ELSE periodic
    /\ \/ /\ producer' = "running"
          /\ receiver' = TRUE
          /\ pc' = "spawn"
          /\ handle' = TRUE
          /\ stops' = 0
          /\ UNCHANGED run_result
       \/ /\ run_result' = Err("UnrecoverableError", "oops")
          /\ pc' = "returned"
          /\ UNCHANGED <<producer, receiver, handle, stops>>
    /\ UNCHANGED <<fetcherVars, buffer_capacity, handler_registry, state, logger, custom_handler,
                   transaction, handler_exists, event_index,
                   event_handler, pe_result, th_result, handled, lockVars,
                   reports, reports_after_return, channel, sent, histVars>>

\* transaction_stream.start(): the source spawns its production task and
\* hands out the receiving end, or fails.
RunStart ==
    /\ pc = "start"
    /\ \/ /\ producer' = "running"
          /\ receiver' = TRUE
          /\ pc' = "spawn"
          /\ handle' = TRUE
          /\ stops' = 0
          /\ UNCHANGED run_result
       \/ /\ run_result' = Err("UnrecoverableError", "oops")
          /\ pc' = "returned"
          /\ UNCHANGED <<producer, receiver, handle, stops>>
    /\ UNCHANGED <<fetcherVars, buffer_capacity, procVars, transaction, handler_exists, event_index,
                   event_handler, pe_result, th_result, handled, lockVars,
                   periodicVars, channel, sent, histVars>>

\* Spawn the periodic-reporting task when there is a logger.
RunSpawnPeriodic ==
    /\ pc = "spawn"
    /\ periodic_logging_joinhandle' = logger
    /\ periodic' = IF logger THEN "sleeping" ELSE periodic
    /\ pc' = "recv"
    /\ UNCHANGED <<fetcherVars, sourceVars, handler_registry, state, logger, custom_handler, receiver,
                   transaction, handler_exists, event_index, event_handler,
                   pe_result, th_result, handled, run_result, lockVars,
                   reports, reports_after_return, producerVars, histVars>>

\* A variant that takes the newest message.
RecvIndex_Newest(ch) == Len(ch)

\* The position in the channel of the message recv() takes: the oldest.
RecvIndex(ch) == 1

\* A variant that reports the channel closed while messages are buffered.
RecvNone_Early == producer = "closed"

\* recv() yields None: every sender is dropped and the buffer is empty.
RecvNone == channel = <<>> /\ producer = "closed"

\* receiver.recv().await yields Some(transaction).
RunRecv ==
    /\ pc = "recv"
    /\ channel # <<>>
    /\ \E evs \in EventSeqs :
         transaction' = Transaction(channel[RecvIndex(channel)], evs)
    /\ channel' = [i \in 1..(Len(channel) - 1) |->
                     IF i < RecvIndex(channel) THEN channel[i]
                     ELSE channel[i + 1]]
    /\ history' = <<Entry("recv", channel[RecvIndex(channel)], 0)>>
    /\ received' = received + 1
    \* the locals of the previous iteration are gone
    /\ handler_exists' = FALSE
    /\ event_index' = 0
    /\ event_handler' = NoHandler
    /\ pe_result' = NoResult
    /\ th_result' = NoResult
    /\ handled' = FALSE
    /\ pc' = "process_transaction"
    /\ UNCHANGED <<fetcherVars, sourceVars, procVars, receiver, run_result, lockVars, periodicVars,
                   producer, sent, event_retries, tx_retries, registry_ops>>

\* receiver.recv().await yields None: the channel is drained and every
\* sender is dropped. The loop ends and the periodic task is aborted.
RunShutdown ==
    /\ pc = "recv"
    /\ RecvNone
    /\ periodic_logging_joinhandle' = FALSE
    /\ periodic' = IF periodic_logging_joinhandle THEN "aborted" ELSE periodic
    /\ lock' = IF periodic_logging_joinhandle /\ periodic = "reporting"
               THEN "free" ELSE lock
    /\ run_result' = Ok
    /\ receiver' = FALSE
    /\ pc' = "returned"
    /\ UNCHANGED <<fetcherVars, sourceVars, handler_registry, state, logger, custom_handler,
                   transaction, handler_exists, event_index, event_handler,
                   pe_result, th_result, handled, pending, return_pc, reports,
                   reports_after_return, producerVars, histVars>>

\* A variant that reports every transaction as handled.
RunFinishTransaction_AlwaysHandled ==
    /\ pc = "finish"
    /\ Notify(FinishTransaction(transaction, TRUE), "recv")
    /\ UNCHANGED <<fetcherVars, sourceVars, procVars, receiver, transaction, handler_exists,
                   event_index, event_handler, pe_result, th_result, handled,
                   run_result, lock, periodicVars, producerVars, histVars>>

\* process_transaction returned Ok(handled): notify finish_transaction.
RunFinishTransaction ==
    /\ pc = "finish"
    /\ Notify(FinishTransaction(transaction, handled), "recv")
    /\ UNCHANGED <<fetcherVars, sourceVars, procVars, receiver, transaction, handler_exists,
                   event_index, event_handler, pe_result, th_result, handled,
                   run_result, lock, periodicVars, producerVars, histVars>>

\* process_transaction returned Err: `?` returns it from run().
RunPropagate ==
    /\ pc = "propagate"
    /\ run_result' = th_result
    /\ receiver' = FALSE
    /\ history' = Append(history,
                    Return("pt_return", transaction, 0, NoHandler, th_result))
    /\ pc' = "returned"
    /\ UNCHANGED <<fetcherVars, sourceVars, procVars, transaction, handler_exists, event_index,
                   event_handler, pe_result, th_result, handled, lockVars,
                   periodicVars, producerVars, event_retries, tx_retries,
                   registry_ops,
                   received>>

(***************************************************************************)
(* TransactionStreamProcessor::process_transaction                         *)
(***************************************************************************)
\* A variant that takes every transaction with events for dispatchable.
AnyHandlerExists_AnyEvent(registry, t) == Len(t.events) > 0

\* transaction.events.iter().any(|event| handler_exists(..))
AnyHandlerExists(registry, t) ==
    \E i \in 1..Len(t.events) : HandlerExists(registry, t.events[i])

\* Decide dispatchability and notify receive_transaction(.., false).
ProcessTransaction ==
    /\ pc = "process_transaction"
    /\ handler_exists' = AnyHandlerExists(handler_registry, transaction)
    /\ Notify(ReceiveTransaction(transaction, handler_exists', FALSE), "pt_check")
    /\ UNCHANGED <<fetcherVars, sourceVars, procVars, receiver, transaction, event_index,
                   event_handler, pe_result, th_result, handled, run_result,
                   lock, periodicVars, producerVars, histVars>>

\* if !handler_exists { return Ok(false); }
PTSkip ==
    /\ pc = "pt_check"
    /\ ~handler_exists
    /\ handled' = FALSE
    /\ history' = Append(history,
                    [Return("pt_return", transaction, 0, NoHandler, Ok)
                        EXCEPT !.dispatchable = FALSE])
    /\ pc' = "finish"
    /\ UNCHANGED <<fetcherVars, sourceVars, procVars, receiver, transaction, handler_exists,
                   event_index, event_handler, pe_result, th_result,
                   run_result, lockVars, periodicVars, producerVars,
                   received, event_retries, tx_retries, registry_ops>>

\* Enter the `while let Err(err) = self.transaction_handler.handle(..)` loop.
PTDispatch ==
    /\ pc = "pt_check"
    /\ handler_exists
    /\ pc' = "handle"
    /\ UNCHANGED <<fetcherVars, sourceVars, procVars, receiver, transaction, handler_exists,
                   event_index, event_handler, pe_result, th_result, handled,
                   run_result, lockVars, periodicVars, producerVars, histVars>>

\* self.transaction_handler.handle(TransactionHandlerContext {..}) is called.
THInvoke ==
    /\ pc = "handle"
    /\ history' = Append(history, Invoke("th_invoke", transaction, 0, NoHandler))
    /\ pc' = "th_body"
    /\ UNCHANGED <<fetcherVars, sourceVars, procVars, receiver, transaction, handler_exists,
                   event_index, event_handler, pe_result, th_result, handled,
                   run_result, lockVars, periodicVars, producerVars,
                   received, event_retries, tx_retries, registry_ops>>

\* A variant whose iteration resumes where the previous attempt stopped.
THCallProcessEvents_Resume ==
    /\ pc = "th_body"
    /\ event_index' = IF event_index > 0 THEN event_index ELSE 1
    /\ history' = Append(history, Entry("pe_call", transaction.state_version, 0))
    /\ pc' = "pe_loop"
    /\ UNCHANGED <<fetcherVars, sourceVars, procVars, receiver, transaction, handler_exists,
                   event_handler, pe_result, th_result, handled, run_result,
                   lockVars, periodicVars, producerVars, event_retries,
                   tx_retries, registry_ops,
                   received>>

\* The handler calls event_processor.process_events(state, registry, ctx).
THCallProcessEvents ==
    /\ pc = "th_body"
    /\ event_index' = 1
    /\ history' = Append(history, Entry("pe_call", transaction.state_version, 0))
    /\ pc' = "pe_loop"
    /\ UNCHANGED <<fetcherVars, sourceVars, procVars, receiver, transaction, handler_exists,
                   event_handler, pe_result, th_result, handled, run_result,
                   lockVars, periodicVars, producerVars, event_retries,
                   tx_retries, registry_ops,
                   received>>

\* What the transaction handler returns once process_events has returned r:
\* the default handler forwards it (`?` then Ok(())); a user handler
\* propagates an error the same way and otherwise decides by itself.
THOutcomes(r) ==
    IF r.kind # "Ok" \/ ~custom_handler
    THEN {FromEventHandlerError(r)}
    ELSE {Ok, Err("UnrecoverableError", "boom")}
         \cup (IF FaultsLeft
               THEN {Err("TransactionRetryError", "busy")} ELSE {})

THReturn ==
    /\ pc = "th_resume"
    /\ \E r \in THOutcomes(pe_result) :
         /\ th_result' = r
         /\ tx_retries' = IF r.kind = "TransactionRetryError"
                          THEN tx_retries + 1 ELSE tx_retries
         /\ history' = Append(history,
                         Return("th_return", transaction, 0, NoHandler, r))
    /\ pc' = "pt_match"
    /\ UNCHANGED <<fetcherVars, sourceVars, procVars, receiver, transaction, handler_exists,
                   event_index, event_handler, pe_result, handled, run_result,
                   lockVars, periodicVars, producerVars, event_retries,
                   registry_ops,
                   received>>

\* A variant that gives up after a TransactionRetryError and reports the
\* transaction as processed.
PTMatch_GiveUp(r) ==
    CASE r.kind \in {"Ok", "TransactionRetryError"} -> "return_ok"
      [] OTHER -> "return_err"

\* A variant that retries after every error.
PTMatch_RetryAll(r) == IF r.kind = "Ok" THEN "return_ok" ELSE "retry"

\* What process_transaction does with the handler's result (the while-let
\* and its match).
PTMatch(r) ==
    CASE r.kind = "Ok" -> "return_ok"
      [] r.kind = "TransactionRetryError" -> "retry"
      [] OTHER -> "return_err"

\* The handler succeeded: Ok(true).
PTReturnOk ==
    /\ pc = "pt_match"
    /\ PTMatch(th_result) = "return_ok"
    /\ handled' = TRUE
    /\ history' = Append(history,
                    [Return("pt_return", transaction, 0, NoHandler, Ok)
                        EXCEPT !.dispatchable = TRUE])
    /\ pc' = "finish"
    /\ UNCHANGED <<fetcherVars, sourceVars, procVars, receiver, transaction, handler_exists,
                   event_index, event_handler, pe_result, th_result,
                   run_result, lockVars, periodicVars, producerVars,
                   received, event_retries, tx_retries, registry_ops>>

\* TransactionRetryError(e): notify transaction_retry_error, then sleep.
PTRetryError ==
    /\ pc = "pt_match"
    /\ PTMatch(th_result) = "retry"
    /\ Notify(TransactionRetryError(transaction, th_result.cause,
                                    TRANSACTION_RETRY_INTERVAL_MS), "tx_sleep")
    /\ UNCHANGED <<fetcherVars, sourceVars, procVars, receiver, transaction, handler_exists,
                   event_index, event_handler, pe_result, th_result, handled,
                   run_result, lock, periodicVars, producerVars, histVars>>

\* A variant that decides dispatchability again after the suspension.
PTSleep_Recheck ==
    /\ pc = "tx_sleep"
    /\ history' = Append(history,
                    Sleep(transaction, 0, TRANSACTION_RETRY_INTERVAL_MS))
    /\ handler_exists' = AnyHandlerExists(handler_registry, transaction)
    /\ Notify(ReceiveTransaction(transaction, handler_exists', TRUE), "pt_check")
    /\ UNCHANGED <<fetcherVars, sourceVars, procVars, receiver, transaction,
                   event_index, event_handler, pe_result, th_result, handled,
                   run_result, lock, periodicVars, producerVars,
                   received, event_retries, tx_retries, registry_ops>>

\* A variant that announces the retry as a first receipt.
PTSleep_NotRetry ==
    /\ pc = "tx_sleep"
    /\ history' = Append(history,
                    Sleep(transaction, 0, TRANSACTION_RETRY_INTERVAL_MS))
    /\ Notify(ReceiveTransaction(transaction, handler_exists, FALSE), "handle")
    /\ UNCHANGED <<fetcherVars, sourceVars, procVars, receiver, transaction, handler_exists,
                   event_index, event_handler, pe_result, th_result, handled,
                   run_result, lock, periodicVars, producerVars,
                   received, event_retries, tx_retries, registry_ops>>

\* tokio::time::sleep(transaction_retry_delay), then notify
\* receive_transaction(.., handler_exists, true) and `continue`.
PTSleep ==
    /\ pc = "tx_sleep"
    /\ history' = Append(history,
                    Sleep(transaction, 0, TRANSACTION_RETRY_INTERVAL_MS))
    /\ Notify(ReceiveTransaction(transaction, handler_exists, TRUE), "handle")
    /\ UNCHANGED <<fetcherVars, sourceVars, procVars, receiver, transaction, handler_exists,
                   event_index, event_handler, pe_result, th_result, handled,
                   run_result, lock, periodicVars, producerVars,
                   received, event_retries, tx_retries, registry_ops>>

\* UnrecoverableError(e): notify unrecoverable_error, then return Err.
PTUnrecoverable ==
    /\ pc = "pt_match"
    /\ PTMatch(th_result) = "return_err"
    /\ Notify(UnrecoverableError(NoTransaction, th_result.cause), "propagate")
    /\ UNCHANGED <<fetcherVars, sourceVars, procVars, receiver, transaction, handler_exists,
                   event_index, event_handler, pe_result, th_result, handled,
                   run_result, lock, periodicVars, producerVars, histVars>>

(***************************************************************************)
(* EventProcessor::process_events                                          *)
(***************************************************************************)
CurrentKey == transaction.events[event_index]

\* The iteration is past the last event: Ok(()).
PEDone ==
    /\ pc = "pe_loop"
    /\ event_index > Len(transaction.events)
    /\ pe_result' = Ok
    /\ history' = Append(history,
                    Return("pe_return", transaction, 0, NoHandler, Ok))
    /\ pc' = "th_resume"
    /\ UNCHANGED <<fetcherVars, sourceVars, procVars, receiver, transaction, handler_exists,
                   event_index, event_handler, th_result, handled, run_result,
                   lockVars, periodicVars, producerVars, event_retries,
                   tx_retries, registry_ops,
                   received>>

\* if !handler_exists { continue; }
PESkipEvent ==
    /\ pc = "pe_loop"
    /\ event_index <= Len(transaction.events)
    /\ ~HandlerExists(handler_registry, CurrentKey)
    /\ event_index' = event_index + 1
    /\ history' = Append(history,
                    Entry("pe_skip", transaction.state_version, event_index))
    /\ UNCHANGED <<fetcherVars, sourceVars, procVars, pc, receiver, transaction, handler_exists,
                   event_handler, pe_result, th_result, handled, run_result,
                   lockVars, periodicVars, producerVars, received,
                   event_retries, tx_retries, registry_ops>>

\* A variant that dispatches every event of a dispatchable transaction.
PEReceiveEvent_Always ==
    /\ pc = "pe_loop"
    /\ event_index <= Len(transaction.events)
    /\ handler_exists
    /\ Notify(ReceiveEvent(transaction, event_index, TRUE, FALSE), "get_handler")
    /\ UNCHANGED <<fetcherVars, sourceVars, procVars, receiver, transaction, handler_exists,
                   event_index, event_handler, pe_result, th_result, handled,
                   run_result, lock, periodicVars, producerVars, histVars>>

\* The event has a handler: notify receive_event(.., true, false).
PEReceiveEvent ==
    /\ pc = "pe_loop"
    /\ event_index <= Len(transaction.events)
    /\ HandlerExists(handler_registry, CurrentKey)
    /\ Notify(ReceiveEvent(transaction, event_index, TRUE, FALSE), "get_handler")
    /\ UNCHANGED <<fetcherVars, sourceVars, procVars, receiver, transaction, handler_exists,
                   event_index, event_handler, pe_result, th_result, handled,
                   run_result, lock, periodicVars, producerVars, histVars>>

\* A variant that keeps the handler it resolved for an earlier event.
PEGetHandler_Cached ==
    /\ pc = "get_handler"
    /\ event_handler' = IF event_handler # NoHandler THEN event_handler
                        ELSE GetHandler(handler_registry, CurrentKey)
    /\ pc' = "eh_invoke"
    /\ UNCHANGED <<fetcherVars, sourceVars, procVars, receiver, transaction, handler_exists,
                   event_index, pe_result, th_result, handled, run_result,
                   lockVars, periodicVars, producerVars, histVars>>

\* handler_registry.get_handler(..).unwrap(), then clone.
PEGetHandler ==
    /\ pc = "get_handler"
    /\ event_handler' = GetHandler(handler_registry, CurrentKey)
    /\ pc' = "eh_invoke"
    /\ UNCHANGED <<fetcherVars, sourceVars, procVars, receiver, transaction, handler_exists,
                   event_index, pe_result, th_result, handled, run_result,
                   lockVars, periodicVars, producerVars, histVars>>

\* A variant that starts the handler and goes on with the next event
\* without awaiting it.
EHInvoke_Detached ==
    /\ pc = "eh_invoke"
    /\ history' = Append(history,
                    Invoke("eh_invoke", transaction, event_index, event_handler))
    /\ pc' = "pe_next"
    /\ UNCHANGED <<fetcherVars, sourceVars, procVars, receiver, transaction, handler_exists,
                   event_index, event_handler, pe_result, th_result, handled,
                   run_result, lockVars, periodicVars, producerVars,
                   received, event_retries, tx_retries, registry_ops>>

\* event_handler.handle(EventHandlerContext {..}, data) is called.
EHInvoke ==
    /\ pc = "eh_invoke"
    /\ history' = Append(history,
                    Invoke("eh_invoke", transaction, event_index, event_handler))
    /\ pc' = "eh_running"
    /\ UNCHANGED <<fetcherVars, sourceVars, procVars, receiver, transaction, handler_exists,
                   event_index, event_handler, pe_result, th_result, handled,
                   run_result, lockVars, periodicVars, producerVars,
                   received, event_retries, tx_retries, registry_ops>>

\* What an event handler may return.
EHOutcomes ==
    {Ok, Err("UnrecoverableError", "boom"), Err("OtherError", "oops")}
    \cup (IF FaultsLeft
          THEN {Err("EventRetryError", "busy")} ELSE {})

\* A variant that moves on to the next event after an EventRetryError.
PEMatch_SkipFailed(r) ==
    CASE r.kind \in {"Ok", "EventRetryError"} -> "finish"
      [] OTHER -> "return_err"

\* A variant that retries after every error.
PEMatch_RetryAll(r) == IF r.kind = "Ok" THEN "finish" ELSE "retry"

\* What process_events does with the handler's result (the while-let and
\* its match).
PEMatch(r) ==
    CASE r.kind = "Ok" -> "finish"
      [] r.kind = "EventRetryError" -> "retry"
      [] OTHER -> "return_err"

\* The handler returns r, having written STATE and possibly changed the
\* registry; process_events goes on according to r.
EHReturn ==
    /\ pc = "eh_running"
    /\ state' = event_handler
    /\ \E reg \in RegistryEffects(handler_registry) :
         /\ reg # handler_registry => FaultsLeft
         /\ handler_registry' = reg
         /\ registry_ops' = IF reg # handler_registry
                            THEN registry_ops + 1 ELSE registry_ops
    /\ \E r \in EHOutcomes :
         LET returned == Append(history,
                 Return("eh_return", transaction, event_index, event_handler, r))
         IN CASE PEMatch(r) = "finish" ->
                   /\ history' = returned
                   /\ Notify(FinishEvent(transaction, event_index, TRUE),
                             "pe_next")
                   /\ UNCHANGED <<pe_result, event_retries>>
              [] PEMatch(r) = "retry" ->
                   /\ history' = returned
                   /\ event_retries' = event_retries + 1
                   /\ Notify(EventRetryError(transaction, event_index, r.cause,
                                             EVENT_RETRY_INTERVAL_MS),
                             "event_sleep")
                   /\ UNCHANGED pe_result
              [] OTHER ->
                   /\ pe_result' = r
                   /\ history' = Append(returned,
                          Return("pe_return", transaction, 0, NoHandler, r))
                   /\ pc' = "th_resume"
                   /\ UNCHANGED <<event_retries, pending, return_pc>>
    /\ UNCHANGED <<fetcherVars, sourceVars, logger, custom_handler, periodic_logging_joinhandle,
                   receiver, transaction, handler_exists, event_index,
                   event_handler, th_result, handled, run_result, lock,
                   periodicVars, producerVars, tx_retries,
                   received>>

\* A variant that suspends only when there is an observer to tell.
PESleep_OnlyWhenObserved ==
    /\ pc = "event_sleep"
    /\ history' = IF logger
                  THEN Append(history, Sleep(transaction, event_index,
                                             EVENT_RETRY_INTERVAL_MS))
                  ELSE history
    /\ Notify(ReceiveEvent(transaction, event_index, TRUE, TRUE), "eh_invoke")
    /\ UNCHANGED <<fetcherVars, sourceVars, procVars, receiver, transaction, handler_exists,
                   event_index, event_handler, pe_result, th_result, handled,
                   run_result, lock, periodicVars, producerVars,
                   received, event_retries, tx_retries, registry_ops>>

\* A variant that goes back to the existence check and resolves the handler
\* again after the suspension.
PESleep_Relookup ==
    /\ pc = "event_sleep"
    /\ history' = Append(history,
                    Sleep(transaction, event_index, EVENT_RETRY_INTERVAL_MS))
    /\ pc' = "pe_loop"
    /\ UNCHANGED <<fetcherVars, sourceVars, procVars, receiver, transaction, handler_exists,
                   event_index, event_handler, pe_result, th_result, handled,
                   run_result, lockVars, periodicVars, producerVars,
                   received, event_retries, tx_retries, registry_ops>>

\* A variant that retries at once, without the suspension.
PESleep_NoDelay ==
    /\ pc = "event_sleep"
    /\ Notify(ReceiveEvent(transaction, event_index, TRUE, TRUE), "eh_invoke")
    /\ UNCHANGED <<fetcherVars, sourceVars, procVars, receiver, transaction, handler_exists,
                   event_index, event_handler, pe_result, th_result, handled,
                   run_result, lock, periodicVars, producerVars, histVars>>

\* tokio::time::sleep(event_retry_interval), then notify
\* receive_event(.., true, true) and `continue` with the same handler.
PESleep ==
    /\ pc = "event_sleep"
    /\ history' = Append(history,
                    Sleep(transaction, event_index, EVENT_RETRY_INTERVAL_MS))
    /\ Notify(ReceiveEvent(transaction, event_index, TRUE, TRUE), "eh_invoke")
    /\ UNCHANGED <<fetcherVars, sourceVars, procVars, receiver, transaction, handler_exists,
                   event_index, event_handler, pe_result, th_result, handled,
                   run_result, lock, periodicVars, producerVars,
                   received, event_retries, tx_retries, registry_ops>>

\* After finish_event the for loop moves to the next event.
PENext ==
    /\ pc = "pe_next"
    /\ event_index' = event_index + 1
    /\ pc' = "pe_loop"
    /\ UNCHANGED <<fetcherVars, sourceVars, procVars, receiver, transaction, handler_exists,
                   event_handler, pe_result, th_result, handled, run_result,
                   lockVars, periodicVars, producerVars, histVars>>

(***************************************************************************)
(* The periodic-reporting task spawned by run().                           *)
(***************************************************************************)
\* sleep(interval) is over; logger.read().await is granted unless a writer
\* holds the lock.
PeriodicAcquire ==
    /\ periodic = "sleeping"
    /\ reports < MaxReports
    /\ lock = "free"
    /\ lock' = "read"
    /\ periodic' = "reporting"
    /\ UNCHANGED <<fetcherVars, sourceVars, procVars, loopVars, pending, return_pc, reports,
                   reports_after_return, producerVars, histVars>>

\* periodic_report() is called and the read guard is dropped.
PeriodicReport ==
    /\ periodic = "reporting"
    /\ reports' = reports + 1
    /\ reports_after_return' = IF pc = "returned"
                               THEN reports_after_return + 1
                               ELSE reports_after_return
    /\ lock' = "free"
    /\ periodic' = "sleeping"
    /\ UNCHANGED <<fetcherVars, sourceVars, procVars, loopVars, pending, return_pc, producerVars,
                   histVars>>

(***************************************************************************)
(* The production task of the transaction stream.                          *)
(***************************************************************************)
\* A variant whose send gives the transaction up when the channel is full.
ProducerSend_DropWhenFull ==
    /\ producer = "running"
    /\ receiver
    /\ sent < MaxTx
    /\ channel' = IF Len(channel) < buffer_capacity
                  THEN Append(channel, sent + 1) ELSE channel
    /\ sent' = sent + 1
    /\ UNCHANGED <<fetcherVars, sourceVars, procVars, loopVars, lockVars, periodicVars,
                   producer, histVars>>

\* tx.send(transaction).await completes when the channel has room; until
\* then the production task is suspended in it.
ProducerSend ==
    /\ producer = "running"
    /\ receiver
    /\ sent < MaxTx
    /\ Len(channel) < buffer_capacity
    /\ channel' = Append(channel, sent + 1)
    /\ sent' = sent + 1
    /\ UNCHANGED <<fetcherVars, sourceVars, procVars, loopVars, lockVars, periodicVars, producer,
                   histVars>>

\* tx.send(transaction).await fails because the receiving end is gone: the
\* task returns.
ProducerSendFail ==
    /\ producer = "running"
    /\ ~receiver
    /\ producer' = "closed"
    /\ UNCHANGED <<fetcherVars, sourceVars, procVars, loopVars, lockVars, periodicVars, channel, sent,
                   histVars>>

\* The production task ends (it is aborted, or its source is exhausted) and
\* its Sender is dropped.
ProducerClose ==
    /\ producer = "running"
    /\ receiver
    /\ producer' = "closed"
    /\ UNCHANGED <<fetcherVars, sourceVars, procVars, loopVars, lockVars, periodicVars, channel, sent,
                   histVars>>

\* A variant of stop() that aborts the task and keeps the handle.
SourceStop_KeepHandle ==
    /\ pc \in {"start", "returned"}
    /\ stops < MaxStops
    /\ stops' = stops + 1
    /\ producer' = IF handle /\ producer = "running" THEN "closed" ELSE producer
    /\ UNCHANGED <<fetcherVars, buffer_capacity, handle, procVars, loopVars, lockVars,
                   periodicVars, channel, sent, histVars>>

\* GatewayTransactionStream::stop, called by the owner of the source while
\* run() is not borrowing it: `if let Some(handle) = self.handle.take()
\* { handle.abort(); }`. Aborting the task drops its Sender.
SourceStop ==
    /\ pc \in {"start", "returned"}
    /\ stops < MaxStops
    /\ stops' = stops + 1
    /\ handle' = FALSE
    /\ producer' = IF handle /\ producer = "running" THEN "closed" ELSE producer
    /\ UNCHANGED <<fetcherVars, buffer_capacity, procVars, loopVars, lockVars,
                   periodicVars, channel, sent, histVars>>

(***************************************************************************)
(* GatewayFetcher::run, the production task of GatewayTransactionStream,   *)
(* step by step: fetch a page, convert its items, send them one by one.    *)
(***************************************************************************)
\* An item of a page: its state version, and whether it carries all of
\* intent_hash, receipt and receipt.events.
CommittedTransactionInfo(sv, complete) ==
    [state_version |-> sv, complete |-> complete]

\* The pages of n items the stream can return when it asks from state
\* version c on: consecutive state versions, any item complete or not.
Pages(c, n) ==
    {[i \in 1..n |-> CommittedTransactionInfo(c + i - 1, b[i])] :
        b \in [1..n -> BOOLEAN]}

\* impl From<CommittedTransactionInfo> for Transaction: the three expect()
\* calls panic on an item that lacks one of the fields.
Converts(item) == item.complete

\* The message the channel carries for the converted item.
FromCommittedTransactionInfo(item) == item.state_version

PageLimit == IF MaxTx + 1 - cursor < MaxPage THEN MaxTx + 1 - cursor ELSE MaxPage

\* self.stream.next().await returns Ok(response); the stream moves its
\* cursor behind the last item. An empty page makes the task sleep for
\* caught_up_timeout_ms before it goes on.
GatewayFetch ==
    /\ producer = "running"
    /\ fetcher = "fetch"
    /\ \E n \in 0..PageLimit :
         \E items \in Pages(cursor, n) :
            /\ response' = items
            /\ cursor' = cursor + n
    /\ fetcher' = "convert"
    /\ UNCHANGED <<page, fetch_errors, sourceVars, procVars, loopVars, lockVars,
                   periodicVars, producerVars, histVars>>

\* A variant where a failed fetch moves the cursor past a transaction.
GatewayFetchError_Skips ==
    /\ producer = "running"
    /\ fetcher = "fetch"
    /\ fetch_errors < MaxFetchErrors
    /\ cursor <= MaxTx
    /\ fetch_errors' = fetch_errors + 1
    /\ cursor' = cursor + 1
    /\ UNCHANGED <<fetcher, response, page, sourceVars, procVars, loopVars,
                   lockVars, periodicVars, producerVars, histVars>>

\* self.stream.next().await returns Err: `while let Err(err) = response`
\* warns and fetches again, the cursor where it was.
GatewayFetchError ==
    /\ producer = "running"
    /\ fetcher = "fetch"
    /\ fetch_errors < MaxFetchErrors
    /\ fetch_errors' = fetch_errors + 1
    /\ UNCHANGED <<fetcher, response, page, cursor, sourceVars, procVars,
                   loopVars, lockVars, periodicVars, producerVars, histVars>>

\* response.items.into_iter().map(|item| item.into()).collect(): the whole
\* page is converted before anything of it is sent.
GatewayConvert ==
    /\ producer = "running"
    /\ fetcher = "convert"
    /\ \A i \in DOMAIN response : Converts(response[i])
    /\ page' = [i \in DOMAIN response |->
                    FromCommittedTransactionInfo(response[i])]
    /\ response' = <<>>
    /\ fetcher' = IF response = <<>> THEN "fetch" ELSE "send"
    /\ UNCHANGED <<cursor, fetch_errors, sourceVars, procVars, loopVars,
                   lockVars, periodicVars, producerVars, histVars>>

\* The conversion of an item panics: the task unwinds, its Sender is
\* dropped, nothing of the page was sent.
GatewayConvertPanic ==
    /\ producer = "running"
    /\ fetcher = "convert"
    /\ \E i \in DOMAIN response : ~Converts(response[i])
    /\ fetcher' = "panicked"
    /\ producer' = "closed"
    /\ UNCHANGED <<response, page, cursor, fetch_errors, sourceVars, procVars,
                   loopVars, lockVars, periodicVars, channel, sent, histVars>>

\* self.tx.send(transaction).await for the next transaction of the page,
\* suspended while the channel is full.
GatewaySend ==
    /\ producer = "running"
    /\ fetcher = "send"
    /\ receiver
    /\ Len(channel) < buffer_capacity
    /\ channel' = Append(channel, Head(page))
    /\ sent' = sent + 1
    /\ page' = Tail(page)
    /\ fetcher' = IF Tail(page) = <<>> THEN "fetch" ELSE "send"
    /\ UNCHANGED <<response, cursor, fetch_errors, sourceVars, procVars,
                   loopVars, lockVars, periodicVars, producer, histVars>>

\* The send fails because the receiving end is closed: `return`.
GatewaySendFail ==
    /\ producer = "running"
    /\ fetcher = "send"
    /\ ~receiver
    /\ fetcher' = "returned"
    /\ producer' = "closed"
    /\ UNCHANGED <<response, page, cursor, fetch_errors, sourceVars, procVars,
                   loopVars, lockVars, periodicVars, channel, sent, histVars>>

Next ==
    \/ RunStart
    \/ RunSpawnPeriodic
    \/ RunRecv
    \/ RunShutdown
    \/ RunFinishTransaction
    \/ RunPropagate
    \/ ProcessTransaction
    \/ PTSkip
    \/ PTDispatch
    \/ THInvoke
    \/ THCallProcessEvents
    \/ THReturn
    \/ PTReturnOk
    \/ PTRetryError
    \/ PTSleep
    \/ PTUnrecoverable
    \/ PEDone
    \/ PESkipEvent
    \/ PEReceiveEvent
    \/ PEGetHandler
    \/ EHInvoke
    \/ EHReturn
    \/ PESleep
    \/ PENext
    \/ AcquireWrite
    \/ ObserverCall
    \/ PeriodicAcquire
    \/ PeriodicReport
    \/ ProducerSend
    \/ ProducerSendFail
    \/ ProducerClose
    \/ SourceStop

Spec == Init /\ [][Next]_vars

\* The steps of the consumer loop, a task the runtime keeps polling: it runs
\* whenever it is ready (a sleep elapsed, a message or the lock available).
Consumer ==
    \/ RunStart \/ RunSpawnPeriodic \/ RunRecv \/ RunShutdown
    \/ RunFinishTransaction \/ RunPropagate
    \/ ProcessTransaction \/ PTSkip \/ PTDispatch \/ THInvoke
    \/ THCallProcessEvents \/ THReturn \/ PTReturnOk \/ PTRetryError
    \/ PTSleep \/ PTUnrecoverable
    \/ PEDone \/ PESkipEvent \/ PEReceiveEvent \/ PEGetHandler \/ EHInvoke
    \/ EHReturn \/ PESleep \/ PENext
    \/ AcquireWrite \/ ObserverCall

\* A processor with a logger and a user transaction handler whose registry
\* knows the key k1.
LiveInit == Init /\ logger /\ custom_handler /\ handler_registry["k1"] = "h1"

\* The consumer task is scheduled fairly, and a periodic report that holds
\* the read lock completes and releases it. Nothing is assumed of the
\* production task.
FairSpec ==
    LiveInit /\ [][Next]_vars /\ WF_vars(Consumer) /\ WF_vars(PeriodicReport)

\* Moreover the periodic-reporting task is scheduled when its sleep is over,
\* and the RwLock is fair: a reader that keeps finding the lock free now and
\* then is granted it.
ReportSpec == FairSpec /\ SF_vars(PeriodicAcquire)

\* The same processor over a source configured with any capacity up to
\* BufferCapacity, so that the production task meets a full channel.
BackpressureInit ==
    /\ Constructed
    /\ buffer_capacity \in 1..BufferCapacity
    /\ logger
    /\ custom_handler
    /\ handler_registry["k1"] = "h1"

BackpressureSpec == BackpressureInit /\ [][Next]_vars

\* The processor over the gateway source: the production task is
\* GatewayFetcher::run in detail.
GatewayNext ==
    \/ Consumer
    \/ PeriodicAcquire
    \/ PeriodicReport
    \/ GatewayFetch
    \/ GatewayFetchError
    \/ GatewayConvert
    \/ GatewayConvertPanic
    \/ GatewaySend
    \/ GatewaySendFail
    \/ SourceStop

GatewayInit == LiveInit /\ handler_registry["k2"] = NoHandler

GatewaySpec == GatewayInit /\ [][GatewayNext]_vars

(***************************************************************************)
(* Reading the recorded history.                                           *)
(***************************************************************************)
Idx(kind) == {i \in DOMAIN history : history[i].kind = kind}

ObserverKinds ==
    {"receive_transaction", "finish_transaction", "transaction_retry_error",
     "receive_event", "finish_event", "event_retry_error",
     "unrecoverable_error"}

Observed == {i \in DOMAIN history : history[i].kind \in ObserverKinds}

\* Entries at positions i+1 .. j-1.
Between(i, j) == {m \in DOMAIN history : i < m /\ m < j}

\* No event of the current transaction has a handler in the registry.
NoEventMatches ==
    \A i \in 1..Len(transaction.events) :
        handler_registry[transaction.events[i]] = NoHandler

\* A transaction has been received and no event handler has run for it yet,
\* so the registry is the one process_transaction was called with.
RegistryAsAtCall == received > 0 /\ Idx("eh_invoke") = {}

(***************************************************************************)
(* C1: a transaction none of whose events has a registered handler when    *)
(* process_transaction is called (a transaction without events included)   *)
(* is skipped: process_transaction returns Ok(false), the Transaction      *)
(* Handler is never invoked for it, and the only observer call             *)
(* process_transaction makes is receive_transaction(dispatchable = false,  *)
(* is_retry = false).                                                      *)
(***************************************************************************)
C1_Case == RegistryAsAtCall /\ NoEventMatches

C1_Skipped ==
    C1_Case =>
        /\ Idx("th_invoke") = {}
        /\ pc \notin {"handle", "th_body", "pt_match", "tx_sleep", "propagate"}
        /\ \A i \in Observed :
             (\A p \in Idx("pt_return") : i < p)
                => history[i] = ReceiveTransaction(transaction, FALSE, FALSE)
        /\ \A p \in Idx("pt_return") :
             /\ history[p].result = "Ok"
             /\ ~history[p].dispatchable
             /\ logger => Cardinality({i \in Observed : i < p}) = 1
        /\ pc = "finish" => Idx("pt_return") # {} /\ ~handled

C1_Witness ==
    /\ C1_Case
    /\ pc = "finish"
    /\ logger
    /\ Len(transaction.events) > 0
    /\ Cardinality(Observed) = 1

(***************************************************************************)
(* C2: for a transaction with a matching event the Transaction Handler is  *)
(* invoked at least once; each TransactionRetryError it returns is         *)
(* followed by a suspension for the transaction retry delay and a fresh    *)
(* invocation for the same transaction; process_transaction returns only   *)
(* after an attempt that succeeded (Ok(true)) or that returned             *)
(* UnrecoverableError.                                                     *)
(***************************************************************************)
LastOf(S) == CHOOSE i \in S : \A j \in S : j <= i

C2_Safety ==
    \* a matching transaction is dispatched, not skipped
    /\ (pc = "pt_check" /\ ~NoEventMatches) => handler_exists
    /\ \A p \in Idx("pt_return") :
         (history[p].result = "Ok" /\ ~history[p].dispatchable)
            => (NoEventMatches /\ Idx("th_invoke") = {})
    \* a return that is not a skip follows a final attempt
    /\ \A p \in Idx("pt_return") :
         (history[p].result # "Ok" \/ history[p].dispatchable) =>
            /\ Idx("th_return") # {}
            /\ LET last == history[LastOf(Idx("th_return"))]
               IN /\ last.result \in {"Ok", "UnrecoverableError"}
                  /\ last.result = history[p].result
                  /\ last.cause = history[p].cause
            /\ Cardinality(Idx("th_invoke")) = Cardinality(Idx("th_return"))
    \* every attempt but the last one ended in TransactionRetryError, and a
    \* suspension for the retry delay separates it from the next attempt
    /\ \A i \in Idx("th_return") : \A j \in Idx("th_invoke") :
         (i < j) =>
            /\ history[i].result = "TransactionRetryError"
            /\ history[j].tx = history[i].tx
            /\ \E m \in Between(i, j) :
                 history[m] = Sleep(transaction, 0,
                                    TRANSACTION_RETRY_INTERVAL_MS)
    /\ \A i \in Idx("th_return") :
         history[i].result = "TransactionRetryError" =>
            Cardinality({j \in Idx("th_invoke") : j < i})
              = Cardinality({j \in Idx("th_return") : j < i}) + 1
    \* after a TransactionRetryError the consumer is on its way to the next
    \* attempt
    /\ (Idx("th_return") # {}
          /\ history[LastOf(Idx("th_return"))].result = "TransactionRetryError"
          /\ \A j \in Idx("th_invoke") : j < LastOf(Idx("th_return")))
         => pc \in {"pt_match", "notify", "notifying", "tx_sleep", "handle"}

C2_Witness ==
    /\ Cardinality(Idx("th_invoke")) = MaxFaults + 1
    /\ \E p \in Idx("pt_return") : history[p].dispatchable

(***************************************************************************)
(* C3: within one call of process_events the event handlers are invoked in *)
(* the order of the transaction's event sequence: when the handler of an   *)
(* event is invoked, every earlier event was either skipped (it had no     *)
(* handler) or its handler returned success, no later event was touched,   *)
(* and every earlier invocation has returned (no two overlap).             *)
(***************************************************************************)
\* The pe_call entry that opened the call of process_events entry i is in.
CallStart(i) == LastOf({c \in Idx("pe_call") : c < i})

C3_InOrder ==
    \A j \in Idx("eh_invoke") :
        LET c == CallStart(j)
            e == history[j].ev
        IN /\ \A e2 \in 1..(e - 1) :
                \E m \in Between(c, j) :
                    /\ history[m].ev = e2
                    /\ \/ history[m].kind = "pe_skip"
                       \/ /\ history[m].kind = "eh_return"
                          /\ history[m].result = "Ok"
           /\ \A m \in Between(c, j) : history[m].ev <= e
           /\ \A i \in Idx("eh_invoke") :
                (c < i /\ i < j) =>
                    \E m \in Between(i, j) :
                        /\ history[m].kind = "eh_return"
                        /\ history[m].ev = history[i].ev

C3_Witness ==
    \E i, j \in Idx("eh_invoke") :
        /\ i < j
        /\ CallStart(i) = CallStart(j)
        /\ history[i].ev = 1
        /\ history[j].ev = 2
        /\ \E m \in Between(i, j) : history[m].result = "EventRetryError"

(***************************************************************************)
(* C4: when an event handler returns EventRetryError k times and then      *)
(* succeeds, it was invoked exactly k+1 times for that event, exactly k    *)
(* suspensions of the event retry delay occurred, one after each failure   *)
(* and before the next attempt, and finish_event is notified once at most, *)
(* after the successful attempt and before the next event is looked at.    *)
(***************************************************************************)
\* Entries of event e in the call opened at c, before position r.
OfEvent(kind, c, e, r) ==
    {i \in Between(c, r) : history[i].kind = kind /\ history[i].ev = e}

C4_RetryThenSuccess ==
    /\ \A r \in Idx("eh_return") :
         history[r].result = "Ok" =>
            LET c == CallStart(r)
                e == history[r].ev
                fails == OfEvent("eh_return", c, e, r)
                invs == OfEvent("eh_invoke", c, e, r)
                sleeps == {i \in OfEvent("sleep", c, e, r) :
                             history[i].delay = EVENT_RETRY_INTERVAL_MS}
                after == {m \in DOMAIN history : m > r /\ CallStart(m) = c}
                fin == {m \in after : history[m].kind = "finish_event"
                                      /\ history[m].ev = e}
            IN /\ \A i \in fails : history[i].result = "EventRetryError"
               /\ Cardinality(invs) = Cardinality(fails) + 1
               /\ Cardinality(sleeps) = Cardinality(fails)
               /\ \A i \in fails :
                    \E m \in sleeps :
                        /\ i < m
                        /\ \A j \in invs : j > i => m < j
               /\ Cardinality(fin) <= 1
               /\ \A m \in after :
                    (history[m].ev # e /\ logger) => \E f \in fin : f < m
    /\ \A f \in Idx("finish_event") :
         \E r \in Idx("eh_return") :
            /\ r < f
            /\ CallStart(r) = CallStart(f)
            /\ history[r].ev = history[f].ev
            /\ history[r].result = "Ok"

C4_Witness ==
    \E r \in Idx("eh_return") :
        /\ history[r].result = "Ok"
        /\ Cardinality(OfEvent("eh_return", CallStart(r), history[r].ev, r)) = 2
        /\ Cardinality(OfEvent("sleep", CallStart(r), history[r].ev, r)) = 2
        /\ \E f \in Idx("finish_event") : f > r
        /\ \E m \in Idx("eh_invoke") : m > r

(***************************************************************************)
(* C5: when the Transaction Handler returns UnrecoverableError(c), the     *)
(* observer (when there is one) is notified unrecoverable_error(c), run()  *)
(* returns an unrecoverable error carrying c, no handler is invoked again  *)
(* and no later transaction is received from the channel.                  *)
(***************************************************************************)
FatalReturns ==
    {i \in Idx("th_return") : history[i].result = "UnrecoverableError"}

C5_Aborts ==
    \A i \in FatalReturns :
        /\ \A j \in Idx("th_invoke") \cup Idx("eh_invoke") : j < i
        /\ pc \in {"pt_match", "notify", "notifying", "propagate", "returned"}
        /\ (logger /\ pc \in {"propagate", "returned"}) =>
              \E u \in Idx("unrecoverable_error") :
                  u > i /\ history[u].cause = history[i].cause
        /\ ~logger => Observed = {}
        /\ pc = "returned" =>
              run_result = Err("UnrecoverableError", history[i].cause)

C5_UnrecoverableEndsRun ==
    /\ []C5_Aborts
    /\ [][FatalReturns # {} =>
            (received' = received /\ transaction' = transaction
             /\ FatalReturns' # {})]_vars

C5_Witness ==
    /\ pc = "returned"
    /\ logger
    /\ custom_handler
    /\ channel # <<>>
    /\ \E i \in FatalReturns :
         /\ history[i].cause = "boom"
         /\ Idx("pe_return") # {}
         /\ history[LastOf(Idx("pe_return"))].result = "Ok"

(***************************************************************************)
(* C6: with the default transaction handler, when an event handler returns *)
(* an error that is not EventRetryError, process_events returns that error *)
(* at once, no handler is invoked again (no retry of the event, no later   *)
(* event, no retry of the transaction), and run() returns an unrecoverable *)
(* error with the same cause.                                              *)
(***************************************************************************)
EventFailures ==
    {i \in Idx("eh_return") :
        history[i].result \notin {"Ok", "EventRetryError"}}

C6_Aborts ==
    ~custom_handler =>
        \A i \in EventFailures :
            /\ i + 1 \in DOMAIN history
            /\ history[i + 1] =
                 Return("pe_return", transaction, 0, NoHandler,
                        Err(history[i].result, history[i].cause))
            /\ \A m \in DOMAIN history :
                 m > i => history[m].kind \notin
                            {"eh_invoke", "th_invoke", "receive_event",
                             "pe_skip", "sleep", "pe_call",
                             "receive_transaction", "finish_transaction"}
            /\ \A t \in Idx("th_return") :
                 t > i => /\ history[t].result = "UnrecoverableError"
                          /\ history[t].cause = history[i].cause
            /\ pc \in {"th_resume", "pt_match", "notify", "notifying",
                       "propagate", "returned"}
            /\ pc = "returned" =>
                 run_result = Err("UnrecoverableError", history[i].cause)

C6_EventFailureEndsRun ==
    /\ []C6_Aborts
    /\ [][(~custom_handler /\ EventFailures # {}) =>
            (received' = received /\ transaction' = transaction
             /\ EventFailures' # {})]_vars

C6_Witness ==
    /\ ~custom_handler
    /\ pc = "returned"
    /\ \E i \in EventFailures :
         /\ history[i].result = "OtherError"
         /\ history[i].ev = 1
         /\ Len(transaction.events) = 2
         /\ handler_registry[transaction.events[2]] # NoHandler
    /\ run_result = Err("UnrecoverableError", "oops")

(***************************************************************************)
(* C7: when the send side of the channel closes, run() eventually returns; *)
(* it returns success only when the channel is closed and drained, every   *)
(* transaction sent has been received and the last one is fully processed  *)
(* (skipped or handled, finish_transaction notified); it returns an error  *)
(* only when the source failed to start or a handler failed unrecoverably, *)
(* never because the channel closed.                                       *)
(***************************************************************************)
C7_Returned ==
    /\ (pc = "returned" /\ run_result = Ok) =>
          /\ producer = "closed"
          /\ channel = <<>>
          /\ received = sent
          /\ received > 0 =>
               /\ transaction.state_version = received
               /\ \E p \in Idx("pt_return") :
                    /\ history[p].result = "Ok"
                    /\ logger => history[Len(history)] =
                         FinishTransaction(transaction, history[p].dispatchable)
    /\ (pc = "returned" /\ run_result # Ok) =>
          \/ producer = "idle" /\ received = 0
          \/ FatalReturns # {}
    /\ FatalReturns = {} => run_result \in {NoResult, Ok}
                            \/ producer = "idle"

C7_CleanShutdown ==
    /\ []C7_Returned
    /\ (<>(producer = "closed")) => <>(pc = "returned")

C7_Witness ==
    /\ pc = "returned"
    /\ run_result = Ok
    /\ received = MaxTx
    /\ tx_retries > 0
    /\ event_retries > 0

(***************************************************************************)
(* C8: transactions are processed in the order they were sent: the         *)
(* transaction received is always the oldest one in the channel, and the   *)
(* next one is received only after the current one resolved as skipped or  *)
(* succeeded with every handler invocation returned; while a transaction   *)
(* or event is retried the later transactions stay in the channel.         *)
(***************************************************************************)
C8_Fifo ==
    /\ received > 0 => transaction.state_version = received
    /\ \A k \in DOMAIN channel : channel[k] = received + k
    /\ \A i \in Idx("th_invoke") \cup Idx("eh_invoke") :
         history[i].tx = received

C8_Resolved ==
    /\ Cardinality(Idx("th_invoke")) = Cardinality(Idx("th_return"))
    /\ Cardinality(Idx("eh_invoke")) = Cardinality(Idx("eh_return"))
    /\ \E p \in Idx("pt_return") :
         /\ history[p].result = "Ok"
         /\ \A i \in Idx("th_invoke") \cup Idx("th_return") : i < p
         /\ IF history[p].dispatchable
            THEN /\ Idx("th_return") # {}
                 /\ history[LastOf(Idx("th_return"))].result = "Ok"
            ELSE Idx("th_invoke") = {}

C8_InOrder ==
    /\ []C8_Fifo
    /\ [][received' # received =>
            /\ received' = received + 1
            /\ transaction'.state_version = received'
            /\ received > 0 => C8_Resolved]_vars

C8_Witness ==
    /\ received = 1
    /\ pc \in {"tx_sleep", "event_sleep"}
    /\ channel = <<2>>

(***************************************************************************)
(* C9: however the production task, the periodic-reporting task and the    *)
(* consumer loop interleave, at most one handler is running: at most one   *)
(* Transaction Handler invocation and at most one event handler invocation *)
(* are open, an event handler runs only inside the process_events call the *)
(* open Transaction Handler invocation is suspended in, and a step of the  *)
(* periodic-reporting task leaves STATE, the registry and the transaction  *)
(* being processed alone.                                                  *)
(***************************************************************************)
Open(invoke, return) == Cardinality(Idx(invoke)) - Cardinality(Idx(return))

\* Handler invocations that are running, not suspended in a call they made.
Running ==
    (IF Open("th_invoke", "th_return") > Open("pe_call", "pe_return")
     THEN Open("th_invoke", "th_return") - Open("pe_call", "pe_return")
     ELSE 0)
    + Open("eh_invoke", "eh_return")

C9_OneAtATime ==
    /\ Open("th_invoke", "th_return") \in {0, 1}
    /\ Open("pe_call", "pe_return") \in {0, 1}
    /\ Open("eh_invoke", "eh_return") \in {0, 1}
    /\ Open("eh_invoke", "eh_return") <= Open("pe_call", "pe_return")
    /\ Open("pe_call", "pe_return") <= Open("th_invoke", "th_return")
    /\ Running <= 1

PeriodicStep ==
    \/ reports' # reports
    \/ periodic = "sleeping" /\ periodic' = "reporting"

C9_Sequential ==
    /\ []C9_OneAtATime
    /\ [][PeriodicStep => UNCHANGED <<state, handler_registry, transaction>>]_vars

C9_Witness ==
    /\ Open("eh_invoke", "eh_return") = 1
    /\ periodic = "reporting"
    /\ producer = "running"
    /\ channel # <<>>

(***************************************************************************)
(* C10: when run() has returned, on the clean path and on the error path,  *)
(* the periodic-reporting task it spawned is cancelled and issues no       *)
(* periodic_report any more.                                               *)
(***************************************************************************)
C10_CancelledOnExit ==
    pc = "returned" =>
        /\ periodic \in {"none", "aborted"}
        /\ reports_after_return = 0

(***************************************************************************)
(* C11: when the source's start() fails, run() returns an unrecoverable    *)
(* error carrying the start error and does nothing else: no transaction is *)
(* received or processed, no handler is invoked, no observer call is made  *)
(* and the periodic-reporting task is not spawned.                         *)
(***************************************************************************)
\* start() was called and did not spawn the production task.
C11_StartFailed == pc # "start" /\ producer = "idle"

C11_NothingDone ==
    C11_StartFailed =>
        /\ pc = "returned"
        /\ run_result = Err("UnrecoverableError", "oops")
        /\ ~receiver
        /\ received = 0
        /\ sent = 0
        /\ channel = <<>>
        /\ transaction = NoTransaction
        /\ history = <<>>
        /\ state = NoHandler
        /\ periodic = "none"
        /\ ~periodic_logging_joinhandle
        /\ reports = 0
        /\ lock = "free"

\* C11: after the failure nothing runs any more; the owner of the source
\* may still call stop(), which finds no handle.
C11_StartFailureIsFatal ==
    /\ []C11_NothingDone
    /\ [][C11_StartFailed =>
            UNCHANGED <<procVars, loopVars, lockVars, periodicVars,
                        producerVars, buffer_capacity, handle, histVars>>]_vars

C11_Witness ==
    /\ C11_StartFailed
    /\ logger
    /\ handler_registry["k1"] # NoHandler

(***************************************************************************)
(* C12 as stated: finish_transaction is notified exactly once for each     *)
(* transaction received from the channel, whatever process_transaction     *)
(* returned for it.                                                        *)
(***************************************************************************)
C12_EveryReceived ==
    (logger /\ received > 0 /\ pc \in {"recv", "returned"}) =>
        Cardinality(Idx("finish_transaction")) = 1

(***************************************************************************)
(* C12 amended: when there is an observer, finish_transaction is notified  *)
(* exactly once for each received transaction whose process_transaction    *)
(* returned Ok, after that return and before the next transaction is       *)
(* received, with was_handled = TRUE iff the Transaction Handler succeeded *)
(* and FALSE iff the transaction was skipped; a transaction whose          *)
(* process_transaction returned an error gets no finish_transaction.       *)
(***************************************************************************)
C12_Finished ==
    /\ Cardinality(Idx("finish_transaction")) <= 1
    /\ ~logger => Idx("finish_transaction") = {}
    /\ \A f \in Idx("finish_transaction") :
         /\ f = Len(history)
         /\ \E p \in Idx("pt_return") :
              /\ p < f
              /\ history[p].result = "Ok"
              /\ history[f] =
                   FinishTransaction(transaction, history[p].dispatchable)
         /\ history[f].dispatchable <=>
              (Idx("th_return") # {}
               /\ history[LastOf(Idx("th_return"))].result = "Ok")
         /\ ~history[f].dispatchable <=> Idx("th_invoke") = {}
    /\ (logger /\ received > 0 /\ pc = "recv") =>
          Idx("finish_transaction") # {}
    /\ (logger /\ received > 0 /\ pc = "returned" /\ run_result = Ok) =>
          Idx("finish_transaction") # {}
    /\ (pc = "returned" /\ run_result # Ok) => Idx("finish_transaction") = {}

C12_FinishOncePerOk ==
    /\ []C12_Finished
    /\ [][(received' # received /\ received > 0 /\ logger) =>
            Cardinality(Idx("finish_transaction")) = 1]_vars

C12_Witness ==
    /\ logger
    /\ pc = "recv"
    /\ received = MaxTx
    /\ tx_retries > 0
    /\ \E f \in Idx("finish_transaction") : history[f].dispatchable

(***************************************************************************)
(* C13: the channel never holds more than buffer_capacity transactions; a  *)
(* send completes only when the channel has room, so a production task     *)
(* that meets a full channel stays suspended until the consumer receives;  *)
(* what it sends next is the transaction after the last one sent: none is  *)
(* dropped or skipped because the channel was full.                        *)
(***************************************************************************)
C13_Bounded ==
    /\ Len(channel) <= buffer_capacity
    /\ sent = received + Len(channel)
    /\ \A k \in DOMAIN channel : channel[k] = received + k

\* The production task has a transaction to send and the channel is full.
C13_Blocked ==
    /\ producer = "running"
    /\ receiver
    /\ sent < MaxTx
    /\ Len(channel) = buffer_capacity

C13_Backpressure ==
    /\ []C13_Bounded
    /\ [][sent' # sent =>
            /\ Len(channel) < buffer_capacity
            /\ sent' = sent + 1
            /\ channel' = Append(channel, sent')]_vars
    /\ [][(C13_Blocked /\ received' = received) =>
            UNCHANGED <<sent, channel>>]_vars
    /\ [][(C13_Blocked /\ received' # received) =>
            (sent' = sent /\ Len(channel') = Len(channel) - 1)]_vars

C13_Witness ==
    /\ buffer_capacity = 1
    /\ sent = MaxTx
    /\ received = 1
    /\ channel = <<MaxTx>>
    /\ pc = "event_sleep"

(***************************************************************************)
(* C14: stop() is idempotent. After start() the first stop() aborts the    *)
(* production task and clears the stored handle; a further stop(), and a   *)
(* stop() before any start(), changes nothing of the source, the channel   *)
(* or the processor.                                                       *)
(***************************************************************************)
C14_StopStep == stops' = stops + 1

C14_Idempotent ==
    /\ [][C14_StopStep =>
            /\ ~handle'
            /\ UNCHANGED <<buffer_capacity, channel, sent, procVars, loopVars,
                           lockVars, periodicVars, histVars>>
            /\ IF handle
               THEN producer' = IF producer = "running" THEN "closed"
                                ELSE producer
               ELSE UNCHANGED <<handle, producer>>]_vars
    /\ [](handle => pc # "start")
    /\ []((pc = "start" \/ producer = "idle") => ~handle)

C14_Witness ==
    /\ stops = 2
    /\ pc = "returned"
    /\ ~handle
    /\ producer = "closed"
    /\ run_result.kind = "UnrecoverableError"
    /\ received > 0

(***************************************************************************)
(* C15: registering a handler under a key that has one replaces it: the    *)
(* registry holds one handler per key, the registration changes that key   *)
(* only, and every event with that key dispatched afterwards is handed to  *)
(* the handler the registry holds then, the new one, never the old one.    *)
(***************************************************************************)
\* The consumer is about to invoke the handler of an event for the first
\* time in this call of process_events (not after a retry delay).
FreshDispatch ==
    /\ pc = "eh_invoke"
    /\ history[Len(history)].kind # "sleep"
    /\ ~(history[Len(history)].kind = "receive_event"
           /\ history[Len(history)].is_retry)

\* h2 was registered under key k, which held another handler.
Replaced(k) ==
    /\ HandlerExists(handler_registry, k)
    /\ handler_registry'[k] \notin {handler_registry[k], NoHandler}

C15_LastWriteWins ==
    /\ [](handler_registry \in Registries)
    /\ [](FreshDispatch =>
            /\ event_handler # NoHandler
            /\ event_handler = GetHandler(handler_registry, CurrentKey))
    /\ [][\A k \in Keys : Replaced(k) =>
            /\ pc = "eh_running"
            /\ GetHandler(handler_registry', k) = "h2"
            /\ \A k2 \in Keys \ {k} :
                 handler_registry'[k2] = handler_registry[k2]]_vars
    /\ [][(FreshDispatch /\ pc' = "eh_running") =>
            history'[Len(history')] =
                Invoke("eh_invoke", transaction, event_index,
                       GetHandler(handler_registry, CurrentKey))]_vars

C15_Witness ==
    \E i, j \in Idx("eh_invoke") :
        /\ i < j
        /\ history[i].ev # history[j].ev
        /\ transaction.events[history[i].ev] = transaction.events[history[j].ev]
        /\ history[i].handler = "h1"
        /\ history[j].handler = "h2"
        /\ handler_registry[transaction.events[history[j].ev]] = "h2"

(***************************************************************************)
(* C16: with an observer, what process_transaction does for a dispatchable *)
(* transaction is, in this order: receive_transaction(dispatchable = TRUE, *)
(* is_retry = FALSE) once, then the handler invocation; after each         *)
(* TransactionRetryError(c): transaction_retry_error(c, transaction retry  *)
(* delay), the suspension for that delay, receive_transaction(is_retry =   *)
(* TRUE), and a fresh handler invocation. receive_transaction with         *)
(* is_retry = TRUE appears nowhere else.                                   *)
(***************************************************************************)
\* The steps of process_transaction itself, without those of process_events.
IsTopLevel(e) ==
    /\ e.kind \in {"receive_transaction", "th_invoke", "th_return",
                    "transaction_retry_error", "sleep"}
    /\ e.ev = 0

TopLevel == SelectSeq(history, IsTopLevel)

C16_Sequence ==
    (logger /\ TopLevel # <<>>) =>
        /\ TopLevel[1].kind = "receive_transaction"
        /\ ~TopLevel[1].is_retry
        /\ ~TopLevel[1].dispatchable => Len(TopLevel) = 1
        /\ \A n \in 2..Len(TopLevel) :
             LET e == TopLevel[n]
                 before == TopLevel[n - 1]
             IN CASE (n - 2) % 5 = 0 ->
                       e = Invoke("th_invoke", transaction, 0, NoHandler)
                  [] (n - 2) % 5 = 1 -> e.kind = "th_return"
                  [] (n - 2) % 5 = 2 ->
                       /\ before.result = "TransactionRetryError"
                       /\ e = TransactionRetryError(transaction, before.cause,
                                    TRANSACTION_RETRY_INTERVAL_MS)
                  [] (n - 2) % 5 = 3 ->
                       e = Sleep(transaction, 0, TRANSACTION_RETRY_INTERVAL_MS)
                  [] OTHER -> e = ReceiveTransaction(transaction, TRUE, TRUE)

C16_Witness ==
    /\ logger
    /\ pc = "finish"
    /\ Len(TopLevel) = 13
    /\ handled

(***************************************************************************)
(* C17: a retry of an event invokes the handler that was resolved before   *)
(* the first attempt, whatever the registry holds by then: every           *)
(* invocation for the same event in one call of process_events is of the   *)
(* same handler, and after an EventRetryError the consumer goes on to the  *)
(* next attempt with that handler even when the entry of the event's key   *)
(* was unregistered or replaced.                                           *)
(***************************************************************************)
\* The last event handler return, when no invocation followed it yet.
PendingRetry ==
    /\ Idx("eh_return") # {}
    /\ history[LastOf(Idx("eh_return"))].result = "EventRetryError"
    /\ \A j \in Idx("eh_invoke") \cup Idx("pe_return") :
         j < LastOf(Idx("eh_return"))

C17_SameHandler ==
    /\ \A i, j \in Idx("eh_invoke") :
         (i < j /\ CallStart(i) = CallStart(j) /\ history[i].ev = history[j].ev)
            => history[j].handler = history[i].handler
    /\ \A i \in Idx("eh_return") : \A j \in Idx("eh_invoke") :
         (i < j /\ CallStart(i) = CallStart(j)
          /\ history[i].result = "EventRetryError"
          /\ \A m \in Between(i, j) : history[m].kind # "eh_invoke")
            => /\ history[j].ev = history[i].ev
               /\ history[j].handler = history[i].handler
    /\ PendingRetry =>
         /\ pc \in {"notify", "notifying", "event_sleep", "eh_invoke"}
         /\ event_index = history[LastOf(Idx("eh_return"))].ev
         /\ event_handler = history[LastOf(Idx("eh_return"))].handler

C17_Witness ==
    /\ pc = "eh_running"
    /\ event_handler = "h1"
    /\ handler_registry[CurrentKey] = NoHandler
    /\ \E i \in Idx("eh_return") :
         /\ CallStart(i) = CallStart(Len(history))
         /\ history[i].ev = event_index
         /\ history[i].result = "EventRetryError"
    /\ history[Len(history)].kind = "eh_invoke"

(***************************************************************************)
(* C18: the consumer holds the observer's lock only during one observer    *)
(* call: never while it sleeps for a retry delay, waits on the channel or  *)
(* runs a handler. So a periodic-reporting task that is due finds the lock *)
(* free in every such state and eventually reports (unless it is aborted), *)
(* and the two tasks never wait for each other.                            *)
(***************************************************************************)
C18_LockPerCall ==
    /\ lock = "write" <=> pc = "notifying"
    /\ lock = "read" <=> periodic = "reporting"
    /\ pc \in {"tx_sleep", "event_sleep", "recv", "th_body", "th_resume",
                "eh_running"} => lock # "write"
    \* the periodic task is granted the lock whenever the consumer is not
    \* in an observer call
    /\ (periodic = "sleeping" /\ reports < MaxReports /\ pc # "notifying")
          => ENABLED PeriodicAcquire
    \* whoever waits for the lock waits for a holder that can go on
    /\ (pc = "notify" /\ lock # "free") => ENABLED PeriodicReport
    /\ (periodic = "sleeping" /\ lock # "free") => ENABLED ObserverCall

C18_NeverStarved ==
    /\ []C18_LockPerCall
    /\ \A n \in 0..(MaxReports - 1) :
         (periodic = "sleeping" /\ reports = n)
            ~> (reports = n + 1 \/ periodic = "aborted")

C18_Witness ==
    /\ pc \in {"event_sleep", "tx_sleep"}
    /\ periodic = "reporting"
    /\ lock = "read"
    /\ event_retries + tx_retries = MaxFaults

(***************************************************************************)
(* C19: process_events dispatches an event iff its key has a handler in    *)
(* the registry when the iteration reaches the event, so what an earlier   *)
(* event handler of the same transaction registered or unregistered        *)
(* decides for the later events. An event without a handler then is passed *)
(* over: no handler invocation, no retry, no receive_event or finish_event *)
(* for it, and the iteration goes on with the next event.                  *)
(***************************************************************************)
\* The iteration is at an event and the consumer takes its step.
ReachesEvent ==
    /\ pc = "pe_loop"
    /\ event_index <= Len(transaction.events)
    /\ <<pc, event_index, pending, history>>' #
         <<pc, event_index, pending, history>>

\* Entries about the event of entry m in the same call of process_events.
AboutEvent(m) ==
    {n \in DOMAIN history :
        /\ history[n].ev = history[m].ev
        /\ \A c \in Idx("pe_call") : (c < m) <=> (c < n)}

C19_Decided ==
    /\ \A m \in Idx("pe_skip") : AboutEvent(m) = {m}
    /\ \A j \in Idx("eh_invoke") : history[j].handler # NoHandler

C19_DispatchedIffRegistered ==
    /\ []C19_Decided
    /\ [][ReachesEvent =>
            IF HandlerExists(handler_registry, CurrentKey)
            THEN /\ event_index' = event_index
                 /\ history' = history
                 /\ IF logger
                    THEN /\ pc' = "notify"
                         /\ pending' = ReceiveEvent(transaction, event_index,
                                                    TRUE, FALSE)
                         /\ return_pc' = "get_handler"
                    ELSE pc' = "get_handler"
            ELSE /\ pc' = "pe_loop"
                 /\ event_index' = event_index + 1
                 /\ pending' = pending
                 /\ history' = Append(history,
                        Entry("pe_skip", transaction.state_version,
                              event_index))]_vars

C19_Witness ==
    /\ pc = "finish"
    /\ handled
    /\ Len(transaction.events) = 2
    /\ transaction.events[1] = transaction.events[2]
    /\ \E i \in Idx("eh_invoke") : \E m \in Idx("pe_skip") :
         /\ CallStart(i) = CallStart(m)
         /\ history[i].ev = 1
         /\ history[m].ev = 2

(***************************************************************************)
(* The processor with logging disabled (logger = None): run(),             *)
(* process_transaction and process_events as above with every              *)
(* `if let Some(logger)` skipped, written over the position and the        *)
(* history of the consumer with the observer calls left out.               *)
(***************************************************************************)
\* Where the consumer is once the observer call it is making is over.
Pc0 == IF pc \in {"notify", "notifying"} THEN return_pc ELSE pc

IsDispatchEntry(e) == e.kind \notin ObserverKinds

\* The history without the observer calls.
Hist0 == SelectSeq(history, IsDispatchEntry)

SilentRunStart ==
    /\ Pc0 = "start"
    /\ \/ /\ producer' = "running"
          /\ receiver' = TRUE
          /\ Pc0' = "spawn"
          /\ handle' = TRUE
          /\ stops' = 0
          /\ UNCHANGED run_result
       \/ /\ run_result' = Err("UnrecoverableError", "oops")
          /\ Pc0' = "returned"
          /\ UNCHANGED <<producer, receiver, handle, stops>>
    /\ UNCHANGED <<buffer_capacity, handler_registry, state, custom_handler,
                   transaction, handler_exists, event_index, event_handler,
                   pe_result, th_result, handled, channel, sent, Hist0,
                   received, event_retries, tx_retries, registry_ops>>

SilentRunRecv ==
    /\ Pc0 = "recv"
    /\ channel # <<>>
    /\ \E evs \in EventSeqs :
         transaction' = Transaction(channel[RecvIndex(channel)], evs)
    /\ channel' = [i \in 1..(Len(channel) - 1) |->
                     IF i < RecvIndex(channel) THEN channel[i]
                     ELSE channel[i + 1]]
    /\ Hist0' = <<Entry("recv", channel[RecvIndex(channel)], 0)>>
    /\ received' = received + 1
    /\ handler_exists' = FALSE
    /\ event_index' = 0
    /\ event_handler' = NoHandler
    /\ pe_result' = NoResult
    /\ th_result' = NoResult
    /\ handled' = FALSE
    /\ Pc0' = "process_transaction"
    /\ UNCHANGED <<sourceVars, handler_registry, state, custom_handler,
                   receiver, run_result, producer, sent, event_retries,
                   tx_retries, registry_ops>>

SilentRunFinishTransaction ==
    /\ Pc0 = "finish"
    /\ Pc0' = "recv"
    /\ UNCHANGED <<sourceVars, handler_registry, state, custom_handler,
                   receiver, transaction, handler_exists, event_index,
                   event_handler, pe_result, th_result, handled, run_result,
                   producerVars, Hist0, received, event_retries, tx_retries,
                   registry_ops>>

SilentRunPropagate ==
    /\ Pc0 = "propagate"
    /\ run_result' = th_result
    /\ receiver' = FALSE
    /\ Hist0' = Append(Hist0,
                    Return("pt_return", transaction, 0, NoHandler, th_result))
    /\ Pc0' = "returned"
    /\ UNCHANGED <<sourceVars, handler_registry, state, custom_handler,
                   transaction, handler_exists, event_index, event_handler,
                   pe_result, th_result, handled, producerVars,
                   event_retries, tx_retries, registry_ops, received>>

SilentProcessTransaction ==
    /\ Pc0 = "process_transaction"
    /\ handler_exists' = AnyHandlerExists(handler_registry, transaction)
    /\ Pc0' = "pt_check"
    /\ UNCHANGED <<sourceVars, handler_registry, state, custom_handler,
                   receiver, transaction, event_index, event_handler,
                   pe_result, th_result, handled, run_result, producerVars,
                   Hist0, received, event_retries, tx_retries,
                   registry_ops>>

SilentPTSkip ==
    /\ Pc0 = "pt_check"
    /\ ~handler_exists
    /\ handled' = FALSE
    /\ Hist0' = Append(Hist0,
                    [Return("pt_return", transaction, 0, NoHandler, Ok)
                        EXCEPT !.dispatchable = FALSE])
    /\ Pc0' = "finish"
    /\ UNCHANGED <<sourceVars, handler_registry, state, custom_handler,
                   receiver, transaction, handler_exists, event_index,
                   event_handler, pe_result, th_result, run_result,
                   producerVars, received, event_retries, tx_retries,
                   registry_ops>>

SilentPTDispatch ==
    /\ Pc0 = "pt_check"
    /\ handler_exists
    /\ Pc0' = "handle"
    /\ UNCHANGED <<sourceVars, handler_registry, state, custom_handler,
                   receiver, transaction, handler_exists, event_index,
                   event_handler, pe_result, th_result, handled, run_result,
                   producerVars, Hist0, received, event_retries, tx_retries,
                   registry_ops>>

SilentTHInvoke ==
    /\ Pc0 = "handle"
    /\ Hist0' = Append(Hist0, Invoke("th_invoke", transaction, 0, NoHandler))
    /\ Pc0' = "th_body"
    /\ UNCHANGED <<sourceVars, handler_registry, state, custom_handler,
                   receiver, transaction, handler_exists, event_index,
                   event_handler, pe_result, th_result, handled, run_result,
                   producerVars, received, event_retries, tx_retries,
                   registry_ops>>

SilentTHCallProcessEvents ==
    /\ Pc0 = "th_body"
    /\ event_index' = 1
    /\ Hist0' = Append(Hist0, Entry("pe_call", transaction.state_version, 0))
    /\ Pc0' = "pe_loop"
    /\ UNCHANGED <<sourceVars, handler_registry, state, custom_handler,
                   receiver, transaction, handler_exists, event_handler,
                   pe_result, th_result, handled, run_result, producerVars,
                   event_retries, tx_retries, registry_ops, received>>

SilentTHReturn ==
    /\ Pc0 = "th_resume"
    /\ \E r \in THOutcomes(pe_result) :
         /\ th_result' = r
         /\ tx_retries' = IF r.kind = "TransactionRetryError"
                          THEN tx_retries + 1 ELSE tx_retries
         /\ Hist0' = Append(Hist0,
                         Return("th_return", transaction, 0, NoHandler, r))
    /\ Pc0' = "pt_match"
    /\ UNCHANGED <<sourceVars, handler_registry, state, custom_handler,
                   receiver, transaction, handler_exists, event_index,
                   event_handler, pe_result, handled, run_result,
                   producerVars, event_retries, registry_ops, received>>

SilentPTReturnOk ==
    /\ Pc0 = "pt_match"
    /\ PTMatch(th_result) = "return_ok"
    /\ handled' = TRUE
    /\ Hist0' = Append(Hist0,
                    [Return("pt_return", transaction, 0, NoHandler, Ok)
                        EXCEPT !.dispatchable = TRUE])
    /\ Pc0' = "finish"
    /\ UNCHANGED <<sourceVars, handler_registry, state, custom_handler,
                   receiver, transaction, handler_exists, event_index,
                   event_handler, pe_result, th_result, run_result,
                   producerVars, received, event_retries, tx_retries,
                   registry_ops>>

SilentPTRetryError ==
    /\ Pc0 = "pt_match"
    /\ PTMatch(th_result) = "retry"
    /\ Pc0' = "tx_sleep"
    /\ UNCHANGED <<sourceVars, handler_registry, state, custom_handler,
                   receiver, transaction, handler_exists, event_index,
                   event_handler, pe_result, th_result, handled, run_result,
                   producerVars, Hist0, received, event_retries, tx_retries,
                   registry_ops>>

SilentPTSleep ==
    /\ Pc0 = "tx_sleep"
    /\ Hist0' = Append(Hist0,
                    Sleep(transaction, 0, TRANSACTION_RETRY_INTERVAL_MS))
    /\ Pc0' = "handle"
    /\ UNCHANGED <<sourceVars, handler_registry, state, custom_handler,
                   receiver, transaction, handler_exists, event_index,
                   event_handler, pe_result, th_result, handled, run_result,
                   producerVars, received, event_retries, tx_retries,
                   registry_ops>>

SilentPTUnrecoverable ==
    /\ Pc0 = "pt_match"
    /\ PTMatch(th_result) = "return_err"
    /\ Pc0' = "propagate"
    /\ UNCHANGED <<sourceVars, handler_registry, state, custom_handler,
                   receiver, transaction, handler_exists, event_index,
                   event_handler, pe_result, th_result, handled, run_result,
                   producerVars, Hist0, received, event_retries, tx_retries,
                   registry_ops>>

SilentPEDone ==
    /\ Pc0 = "pe_loop"
    /\ event_index > Len(transaction.events)
    /\ pe_result' = Ok
    /\ Hist0' = Append(Hist0,
                    Return("pe_return", transaction, 0, NoHandler, Ok))
    /\ Pc0' = "th_resume"
    /\ UNCHANGED <<sourceVars, handler_registry, state, custom_handler,
                   receiver, transaction, handler_exists, event_index,
                   event_handler, th_result, handled, run_result,
                   producerVars, event_retries, tx_retries, registry_ops,
                   received>>

SilentPESkipEvent ==
    /\ Pc0 = "pe_loop"
    /\ event_index <= Len(transaction.events)
    /\ ~HandlerExists(handler_registry, CurrentKey)
    /\ event_index' = event_index + 1
    /\ Hist0' = Append(Hist0,
                    Entry("pe_skip", transaction.state_version, event_index))
    /\ UNCHANGED <<sourceVars, handler_registry, state, custom_handler, Pc0,
                   receiver, transaction, handler_exists, event_handler,
                   pe_result, th_result, handled, run_result, producerVars,
                   received, event_retries, tx_retries, registry_ops>>

SilentPEReceiveEvent ==
    /\ Pc0 = "pe_loop"
    /\ event_index <= Len(transaction.events)
    /\ HandlerExists(handler_registry, CurrentKey)
    /\ Pc0' = "get_handler"
    /\ UNCHANGED <<sourceVars, handler_registry, state, custom_handler,
                   receiver, transaction, handler_exists, event_index,
                   event_handler, pe_result, th_result, handled, run_result,
                   producerVars, Hist0, received, event_retries, tx_retries,
                   registry_ops>>

SilentPEGetHandler ==
    /\ Pc0 = "get_handler"
    /\ event_handler' = GetHandler(handler_registry, CurrentKey)
    /\ Pc0' = "eh_invoke"
    /\ UNCHANGED <<sourceVars, handler_registry, state, custom_handler,
                   receiver, transaction, handler_exists, event_index,
                   pe_result, th_result, handled, run_result, producerVars,
                   Hist0, received, event_retries, tx_retries,
                   registry_ops>>

SilentEHInvoke ==
    /\ Pc0 = "eh_invoke"
    /\ Hist0' = Append(Hist0,
                    Invoke("eh_invoke", transaction, event_index, event_handler))
    /\ Pc0' = "eh_running"
    /\ UNCHANGED <<sourceVars, handler_registry, state, custom_handler,
                   receiver, transaction, handler_exists, event_index,
                   event_handler, pe_result, th_result, handled, run_result,
                   producerVars, received, event_retries, tx_retries,
                   registry_ops>>

SilentEHReturn ==
    /\ Pc0 = "eh_running"
    /\ state' = event_handler
    /\ \E reg \in RegistryEffects(handler_registry) :
         /\ reg # handler_registry => FaultsLeft
         /\ handler_registry' = reg
         /\ registry_ops' = IF reg # handler_registry
                            THEN registry_ops + 1 ELSE registry_ops
    /\ \E r \in EHOutcomes :
         LET returned == Append(Hist0,
                 Return("eh_return", transaction, event_index, event_handler, r))
         IN CASE PEMatch(r) = "finish" ->
                   /\ Hist0' = returned
                   /\ Pc0' = "pe_next"
                   /\ UNCHANGED <<pe_result, event_retries>>
              [] PEMatch(r) = "retry" ->
                   /\ Hist0' = returned
                   /\ event_retries' = event_retries + 1
                   /\ Pc0' = "event_sleep"
                   /\ UNCHANGED pe_result
              [] OTHER ->
                   /\ pe_result' = r
                   /\ Hist0' = Append(returned,
                          Return("pe_return", transaction, 0, NoHandler, r))
                   /\ Pc0' = "th_resume"
                   /\ UNCHANGED <<event_retries>>
    /\ UNCHANGED <<sourceVars, custom_handler, receiver, transaction,
                   handler_exists, event_index, event_handler, th_result,
                   handled, run_result, producerVars, tx_retries, received>>

SilentPESleep ==
    /\ Pc0 = "event_sleep"
    /\ Hist0' = Append(Hist0,
                    Sleep(transaction, event_index, EVENT_RETRY_INTERVAL_MS))
    /\ Pc0' = "eh_invoke"
    /\ UNCHANGED <<sourceVars, handler_registry, state, custom_handler,
                   receiver, transaction, handler_exists, event_index,
                   event_handler, pe_result, th_result, handled, run_result,
                   producerVars, received, event_retries, tx_retries,
                   registry_ops>>

SilentPENext ==
    /\ Pc0 = "pe_next"
    /\ event_index' = event_index + 1
    /\ Pc0' = "pe_loop"
    /\ UNCHANGED <<sourceVars, handler_registry, state, custom_handler,
                   receiver, transaction, handler_exists, event_handler,
                   pe_result, th_result, handled, run_result, producerVars,
                   Hist0, received, event_retries, tx_retries,
                   registry_ops>>

SilentRunSpawnPeriodic ==
    /\ Pc0 = "spawn"
    /\ Pc0' = "recv"
    /\ UNCHANGED <<sourceVars, handler_registry, state, custom_handler,
                   receiver, transaction, handler_exists, event_index,
                   event_handler, pe_result, th_result, handled, run_result,
                   producerVars, Hist0, received, event_retries, tx_retries,
                   registry_ops>>

SilentRunShutdown ==
    /\ Pc0 = "recv"
    /\ RecvNone
    /\ run_result' = Ok
    /\ receiver' = FALSE
    /\ Pc0' = "returned"
    /\ UNCHANGED <<sourceVars, handler_registry, state, custom_handler,
                   transaction, handler_exists, event_index, event_handler,
                   pe_result, th_result, handled, producerVars, Hist0,
                   received, event_retries, tx_retries, registry_ops>>

SilentNext ==
    \/ SilentRunStart
    \/ SilentRunRecv
    \/ SilentRunFinishTransaction
    \/ SilentRunPropagate
    \/ SilentProcessTransaction
    \/ SilentPTSkip
    \/ SilentPTDispatch
    \/ SilentTHInvoke
    \/ SilentTHCallProcessEvents
    \/ SilentTHReturn
    \/ SilentPTReturnOk
    \/ SilentPTRetryError
    \/ SilentPTSleep
    \/ SilentPTUnrecoverable
    \/ SilentPEDone
    \/ SilentPESkipEvent
    \/ SilentPEReceiveEvent
    \/ SilentPEGetHandler
    \/ SilentEHInvoke
    \/ SilentEHReturn
    \/ SilentPESleep
    \/ SilentPENext
    \/ SilentRunSpawnPeriodic
    \/ SilentRunShutdown

\* What dispatch consists of: where the consumer is, what it did, and every
\* variable the handlers and the loop read or write.
dispatchVars ==
    <<Pc0, Hist0, handler_registry, state, custom_handler, receiver,
      transaction, handler_exists, event_index, event_handler, pe_result,
      th_result, handled, run_result, received, event_retries, tx_retries,
      registry_ops>>

(***************************************************************************)
(* C20: the observer does not influence dispatch. With the observer calls  *)
(* left out, every step of a processor, with or without an observer, is a  *)
(* step of the processor with logging disabled or leaves dispatch          *)
(* untouched: the same handler invocations, retries, suspensions and       *)
(* result of run() for the same transactions, registry and handler         *)
(* outcomes. With logging disabled no observer call is made and no         *)
(* periodic-reporting task is spawned.                                     *)
(***************************************************************************)
C20_Disabled ==
    ~logger =>
        /\ Observed = {}
        /\ Hist0 = history
        /\ Pc0 = pc
        /\ pending = NoEntry
        /\ lock = "free"
        /\ periodic = "none"
        /\ ~periodic_logging_joinhandle
        /\ reports = 0

C20_ObserverFree ==
    /\ []C20_Disabled
    /\ [][SilentNext \/ UNCHANGED dispatchVars]_vars

C20_Witness ==
    /\ logger
    /\ pc = "returned"
    /\ run_result = Ok
    /\ event_retries > 0
    /\ tx_retries > 0
    /\ Len(Hist0) < Len(history)

(***************************************************************************)
(* C21: whether a transaction is dispatchable is decided once, when it is  *)
(* received, and never again: handler_exists changes only at that step,    *)
(* every retry invokes the Transaction Handler again and is announced with *)
(* receive_transaction(dispatchable = TRUE, is_retry = TRUE) even when the *)
(* failed attempt removed every matching handler, and a transaction found  *)
(* not dispatchable is not looked at again.                                *)
(***************************************************************************)
\* A retry of the transaction was announced and no handler matches it.
C21_Case ==
    /\ NoEventMatches
    /\ \E i \in Idx("th_return") :
         history[i].result = "TransactionRetryError"

C21_Decided ==
    /\ \A i \in Idx("receive_transaction") :
         /\ history[i].is_retry => history[i].dispatchable
         /\ history[i].dispatchable = handler_exists
    /\ Cardinality({i \in Idx("receive_transaction") : ~history[i].is_retry})
          <= 1
    /\ Idx("th_invoke") # {} => handler_exists
    \* Ok(false): the transaction was skipped and nothing came after
    /\ \A p \in Idx("pt_return") :
         (history[p].result = "Ok" /\ ~history[p].dispatchable) =>
            /\ ~handler_exists
            /\ Idx("th_invoke") = {}
            /\ Cardinality(Idx("receive_transaction")) <= 1
    /\ pc \in {"pt_match", "tx_sleep", "handle"} => handler_exists

\* After the suspension the retry is announced as dispatchable and the
\* handler is invoked, whatever the registry holds by then.
C21_RetryStep ==
    /\ pc = "tx_sleep" /\ pc' # pc =>
          \/ pc' = "handle"
          \/ /\ pc' = "notify"
             /\ return_pc' = "handle"
             /\ pending' = ReceiveTransaction(transaction, TRUE, TRUE)
    /\ pc = "handle" /\ pc' # pc =>
          /\ pc' = "th_body"
          /\ history'[Len(history')].kind = "th_invoke"

C21_DecidedOnce ==
    /\ []C21_Decided
    /\ [][C21_RetryStep]_vars
    /\ [][handler_exists' # handler_exists =>
            \/ pc = "process_transaction"
            \/ pc = "recv" /\ ~handler_exists']_vars

C21_Witness ==
    /\ C21_Case
    /\ logger
    /\ pc = "th_body"
    /\ Cardinality(Idx("th_invoke")) = 2
    /\ \E i \in Idx("receive_transaction") :
         history[i] = ReceiveTransaction(transaction, TRUE, TRUE)

(***************************************************************************)
(* C22: a retry of the transaction starts event dispatch again at the      *)
(* first event: every call of process_events begins with event 1 and goes  *)
(* through the events in order, so an event whose handler succeeded in the *)
(* failed attempt is dispatched again when it still has a handler; STATE   *)
(* and the registry change only while an event handler runs, nothing rolls *)
(* them back between the attempts.                                         *)
(***************************************************************************)
C22_FromFirst ==
    \* the first thing a call does concerns the first event
    /\ \A c \in Idx("pe_call") :
         (c + 1) \in DOMAIN history =>
            /\ history[c + 1].kind \in {"pe_skip", "receive_event", "eh_invoke"}
            /\ history[c + 1].ev = 1
    \* and a later event is reached only from the one before it
    /\ \A m \in DOMAIN history :
         history[m].ev > 1 =>
            \/ history[m - 1].ev = history[m].ev
            \/ /\ history[m - 1].ev = history[m].ev - 1
               /\ history[m - 1].kind \in {"pe_skip", "eh_return", "finish_event"}
    /\ pc = "pe_loop" /\ history[Len(history)].kind = "pe_call"
          => event_index = 1

C22_RestartsAtFirstEvent ==
    /\ []C22_FromFirst
    /\ [][(state' # state \/ handler_registry' # handler_registry)
            => pc = "eh_running"]_vars
    /\ [][(pc = "th_body" /\ pc' = "pe_loop") =>
            (event_index' = 1 /\ UNCHANGED <<state, handler_registry>>)]_vars

C22_Witness ==
    \E i, j \in Idx("eh_invoke") :
        /\ i < j
        /\ history[i].ev = 1
        /\ history[j].ev = 1
        /\ \E c \in Idx("pe_call") : i < c /\ c < j
        /\ \E r \in Idx("eh_return") :
             i < r /\ r < j /\ history[r].ev = 1 /\ history[r].result = "Ok"
        /\ \E r \in Idx("eh_return") :
             i < r /\ r < j /\ history[r].ev = 2 /\ history[r].result = "Ok"
        /\ history[i].handler = "h1"
        /\ history[j].handler = "h2"
        /\ state # NoHandler

(***************************************************************************)
(* C23: the production task of the gateway source sends the transactions   *)
(* of the pages it fetched once each and in order, a failed fetch changes  *)
(* nothing and is tried again, and the task ends by itself only when a     *)
(* send finds the receiving end closed; afterwards it does nothing more.   *)
(***************************************************************************)
\* The task is at work: spawned, and neither ended nor aborted.
FetcherAtWork == producer = "running"

\* What was fetched is what was sent, then what waits in the page, then
\* what waits to be converted: nothing lost, doubled or out of order.
C23_Accounted ==
    /\ \A i \in DOMAIN response :
         response[i].state_version = cursor - Len(response) + i - 1
    /\ \A i \in DOMAIN page : page[i] = sent + i
    /\ sent + Len(page) + Len(response) = cursor - DEFAULT_STATE_VERSION

\* The channel holds the transactions sent and not yet received, oldest
\* first.
C23_InOrder ==
    /\ sent = received + Len(channel)
    /\ \A k \in DOMAIN channel : channel[k] = received + k

\* A failed fetch leaves the task where it was.
C23_FetchErrorStep ==
    fetch_errors' # fetch_errors =>
        /\ UNCHANGED <<fetcher, response, page, cursor, producerVars>>
        /\ fetcher = "fetch"

\* The task ends without being aborted.
EndsByItself == producer = "running" /\ producer' = "closed" /\ stops' = stops

SendFailed == fetcher = "send" /\ ~receiver /\ fetcher' = "returned"

ConversionPanicked ==
    /\ fetcher = "convert"
    /\ \E i \in DOMAIN response : ~response[i].complete
    /\ fetcher' = "panicked"
    /\ UNCHANGED <<channel, sent>>

\* Once it has ended the task fetches and sends nothing.
C23_Quiet ==
    ~FetcherAtWork =>
        UNCHANGED <<fetcher, response, page, cursor, fetch_errors, sent>>

====
